---- MODULE Spec2Model ----
(***************************************************************************)
(* A model of the create-nx-turbob command line generator:                 *)
(*   src/src/index.ts        the `init` and `app` commands                 *)
(*   src/src/utils/index.ts  the file-system and JSON helpers              *)
(*                                                                         *)
(* Text is a sequence of tokens (punctuation, whitespace characters,       *)
(* quoted strings, literals, runs of raw text), so that trimming,          *)
(* JSON.stringify and JSON.parse are computed and not assumed.  A path is  *)
(* the sequence of its components; the file system is the set of           *)
(* directories and the mapping of regular files to their text.             *)
(***************************************************************************)
EXTENDS Integers, Sequences, FiniteSets, TLC

VARIABLES
    dirs,        \* the directories that exist (absolute paths; <<>> is the start directory)
    files,       \* regular files: path -> text
    cwd,         \* process.cwd()
    argv,        \* the parsed command line: [cmd, name, next, node]
    pc,          \* index of the next statement of the running command handler
    state,       \* "running" | "done" | "failed"
    exitCode,    \* exit status of the process once it has ended
    pnpmVersion, \* const pnpmVersion of initializeMonorepo ("" until assigned)
    type,        \* parameter `type` of initializeApp ("" is undefined)
    trace,       \* every effect performed so far, in order
    warned,      \* console.warn was called by getPnpmVersion
    last,        \* the last helper call of utils/index.ts and what it returned
    calls        \* how many helper calls were made

vars == <<dirs, files, cwd, argv, pc, state, exitCode, pnpmVersion, type, trace, warned,
          last, calls>>

cliVars == <<cwd, argv, pc, state, exitCode, pnpmVersion, type, trace, warned>>

(***************************************************************************)
(* Bounds of the model.                                                    *)
(***************************************************************************)
\* at most this many helper calls are made one after the other
MaxCalls == 3
\* exit statuses of an external command range over 0..MaxStatus
MaxStatus == 2
\* the standard output of `pnpm --version` has at most this many characters
MaxOutLen == 3

(***************************************************************************)
(* Text                                                                    *)
(***************************************************************************)
P(c) == [t |-> "p", v |-> c]
W(c) == [t |-> "w", v |-> c]
Q(s) == [t |-> "q", v |-> s]
L(s) == [t |-> "l", v |-> s]
R(s) == [t |-> "r", v |-> s]
NumTok(n) == [t |-> "n", v |-> n]

NL == W("\n")
SP == W(" ")

\* the characters String.prototype.trim strips that a string of this module
\* can hold: space, line feed, tab, carriage return, form feed, and (written
\* as themselves) U+000B line tabulation, U+00A0 no-break space, U+FEFF
\* byte order mark and U+1680 ogham space mark.  The space separators
\* U+2000 to U+200A, U+202F, U+205F, U+3000 and the separators U+2028 and
\* U+2029 are stripped too, and cannot be written in a string here.
WsChars == {" ", "\n", "\t", "\r", "\f", "", " ", "﻿", " "}

IsWs(tok) == tok.t = "w" /\ tok.v \in WsChars
\* the whitespace JSON.parse skips between tokens
IsJsonWs(tok) == tok.t = "w" /\ tok.v \in {" ", "\n", "\t", "\r"}

RECURSIVE TrimStart(_)
TrimStart(s) ==
    IF s # <<>> /\ IsWs(Head(s)) THEN TrimStart(Tail(s)) ELSE s

RECURSIVE TrimEnd(_)
TrimEnd(s) ==
    IF s # <<>> /\ IsWs(s[Len(s)]) THEN TrimEnd(SubSeq(s, 1, Len(s) - 1)) ELSE s

\* String.prototype.trim
Trim(s) == TrimEnd(TrimStart(s))

\* the characters of a string put together again
RECURSIVE Join(_)
Join(cs) == IF cs = <<>> THEN "" ELSE Head(cs) \o Join(Tail(cs))

\* trim() of a string given by its characters
RECURSIVE TrimCharsStart(_)
TrimCharsStart(cs) ==
    IF cs # <<>> /\ Head(cs) \in WsChars THEN TrimCharsStart(Tail(cs)) ELSE cs

RECURSIVE TrimCharsEnd(_)
TrimCharsEnd(cs) ==
    IF cs # <<>> /\ cs[Len(cs)] \in WsChars
    THEN TrimCharsEnd(SubSeq(cs, 1, Len(cs) - 1))
    ELSE cs

TrimChars(cs) == TrimCharsEnd(TrimCharsStart(cs))

\* appName.replace(/-/g, "_")
RECURSIVE ReplaceHyphens(_)
ReplaceHyphens(cs) ==
    IF cs = <<>> THEN <<>>
    ELSE <<IF Head(cs) = "-" THEN "_" ELSE Head(cs)>> \o ReplaceHyphens(Tail(cs))

(***************************************************************************)
(* JSON values: tagged, objects as ordered lists of <<key, value>>.        *)
(***************************************************************************)
JStr(s)  == [t |-> "str",  v |-> s]
JNum(n)  == [t |-> "num",  v |-> n]
JBool(b) == [t |-> "bool", v |-> b]
JArr(xs) == [t |-> "arr",  v |-> xs]
JObj(ps) == [t |-> "obj",  v |-> ps]
JNull    == [t |-> "null", v |-> "null"]

Keys(o) == {o.v[i][1] : i \in 1..Len(o.v)}
HasKey(o, k) == k \in Keys(o)
Get(o, k) == o.v[CHOOSE i \in 1..Len(o.v) : o.v[i][1] = k][2]

\* the own keys of a JavaScript object are listed array indices first, in
\* ascending numeric order, then the other strings in the order they were
\* added.  An array index is the canonical decimal form of an integer from 0
\* to 2^32 - 2.
\* a < b for two strings of digits of the same length
RECURSIVE DigitsLess(_, _)
DigitsLess(a, b) ==
    IF Len(a) = 0 THEN FALSE
    ELSE LET val(c) == CHOOSE d \in 0..9 : ToString(d) = c
             x == val(SubSeq(a, 1, 1))
             y == val(SubSeq(b, 1, 1))
         IN  IF x # y THEN x < y
             ELSE DigitsLess(SubSeq(a, 2, Len(a)), SubSeq(b, 2, Len(b)))

\* a < b for two canonical decimal forms
IndexLess(a, b) == Len(a) < Len(b) \/ (Len(a) = Len(b) /\ DigitsLess(a, b))

IsIndex(k) ==
    /\ Len(k) >= 1
    /\ \A i \in 1..Len(k) :
          SubSeq(k, i, i) \in {"0", "1", "2", "3", "4", "5", "6", "7", "8", "9"}
    /\ Len(k) = 1 \/ SubSeq(k, 1, 1) # "0"
    /\ ~IndexLess("4294967294", k)

\* the members in the order the object lists them: the array indices in
\* ascending order, then the others as they stand
OwnKeyOrder(ps) ==
    LET idx == {i \in 1..Len(ps) : IsIndex(ps[i][1])}
        rank(i) == Cardinality({j \in idx : IndexLess(ps[j][1], ps[i][1])})
        at(r) == CHOOSE i \in idx : rank(i) = r - 1
    IN  [r \in 1..Cardinality(idx) |-> ps[at(r)]]
        \o SelectSeq(ps, LAMBDA e : ~IsIndex(e[1]))

\* o[k] = x on a JavaScript object: an own key keeps its place, a new array
\* index goes among the array indices, another new key goes last
Put(ps, k, x) ==
    IF \E i \in 1..Len(ps) : ps[i][1] = k
    THEN OwnKeyOrder([i \in 1..Len(ps) |-> IF ps[i][1] = k THEN <<k, x>> ELSE ps[i]])
    ELSE OwnKeyOrder(Append(ps, <<k, x>>))

RECURSIVE PutAll(_, _)
PutAll(ps, qs) ==
    IF qs = <<>> THEN ps ELSE PutAll(Put(ps, Head(qs)[1], Head(qs)[2]), Tail(qs))

\* { ...a, ...b } for two objects
Spread(a, b) == JObj(PutAll(PutAll(<<>>, a.v), b.v))

RECURSIVE Spaces(_)
Spaces(n) == IF n <= 0 THEN <<>> ELSE <<SP>> \o Spaces(n - 1)

\* the line break and indentation JSON.stringify puts before an item (none when gap = 0)
Break(gap, level) == IF gap = 0 THEN <<>> ELSE <<NL>> \o Spaces(gap * level)

RECURSIVE Ser(_, _, _)
RECURSIVE SerItems(_, _, _, _)
RECURSIVE SerMembers(_, _, _, _)
Ser(x, gap, level) ==
    CASE x.t = "str"  -> <<Q(x.v)>>
      [] x.t = "num"  -> <<NumTok(x.v)>>
      [] x.t = "bool" -> <<L(IF x.v THEN "true" ELSE "false")>>
      [] x.t = "null" -> <<L("null")>>
      [] x.t = "arr"  ->
            IF x.v = <<>> THEN <<P("["), P("]")>>
            ELSE <<P("[")>> \o SerItems(x.v, gap, level + 1, TRUE)
                 \o Break(gap, level) \o <<P("]")>>
      [] x.t = "obj"  ->
            IF x.v = <<>> THEN <<P("{"), P("}")>>
            ELSE <<P("{")>> \o SerMembers(x.v, gap, level + 1, TRUE)
                 \o Break(gap, level) \o <<P("}")>>
SerItems(xs, gap, level, first) ==
    IF xs = <<>> THEN <<>>
    ELSE (IF first THEN <<>> ELSE <<P(",")>>) \o Break(gap, level)
         \o Ser(Head(xs), gap, level) \o SerItems(Tail(xs), gap, level, FALSE)
SerMembers(ps, gap, level, first) ==
    IF ps = <<>> THEN <<>>
    ELSE (IF first THEN <<>> ELSE <<P(",")>>) \o Break(gap, level)
         \o <<Q(Head(ps)[1]), P(":")>> \o (IF gap = 0 THEN <<>> ELSE <<SP>>)
         \o Ser(Head(ps)[2], gap, level) \o SerMembers(Tail(ps), gap, level, FALSE)

\* JSON.stringify(x, null, gap); JSON.stringify(x) is gap = 0
JSONstringify(x, gap) == Ser(x, gap, 0)

(***************************************************************************)
(* JSON.parse: a recursive descent over the tokens.  A result is           *)
(* [ok, val, rest]; ok = FALSE is the SyntaxError.                         *)
(***************************************************************************)
ParseFail == [ok |-> FALSE, val |-> JNull, rest |-> <<>>]
ParseOk(x, rest) == [ok |-> TRUE, val |-> x, rest |-> rest]

RECURSIVE SkipWs(_)
SkipWs(s) == IF s # <<>> /\ IsJsonWs(Head(s)) THEN SkipWs(Tail(s)) ELSE s

RECURSIVE ParseValue(_)
RECURSIVE ParseItems(_, _)
RECURSIVE ParseMembers(_, _)
ParseValue(s) ==
    LET s0 == SkipWs(s) IN
    IF s0 = <<>> THEN ParseFail
    ELSE LET h == Head(s0) IN
         CASE h.t = "q" -> ParseOk(JStr(h.v), Tail(s0))
           [] h.t = "n" -> ParseOk(JNum(h.v), Tail(s0))
           [] h.t = "l" ->
                 IF h.v = "null" THEN ParseOk(JNull, Tail(s0))
                 ELSE ParseOk(JBool(h.v = "true"), Tail(s0))
           [] h = P("[") ->
                 LET s1 == SkipWs(Tail(s0)) IN
                 IF s1 # <<>> /\ Head(s1) = P("]") THEN ParseOk(JArr(<<>>), Tail(s1))
                 ELSE ParseItems(s1, <<>>)
           [] h = P("{") ->
                 LET s1 == SkipWs(Tail(s0)) IN
                 IF s1 # <<>> /\ Head(s1) = P("}") THEN ParseOk(JObj(<<>>), Tail(s1))
                 ELSE ParseMembers(s1, <<>>)
           [] OTHER -> ParseFail
ParseItems(s, acc) ==
    LET r == ParseValue(s) IN
    IF ~r.ok THEN ParseFail
    ELSE LET s2 == SkipWs(r.rest) IN
         IF s2 = <<>> THEN ParseFail
         ELSE IF Head(s2) = P(",") THEN ParseItems(Tail(s2), Append(acc, r.val))
         ELSE IF Head(s2) = P("]") THEN ParseOk(JArr(Append(acc, r.val)), Tail(s2))
         ELSE ParseFail
ParseMembers(s, acc) ==
    LET s1 == SkipWs(s) IN
    IF s1 = <<>> \/ Head(s1).t # "q" THEN ParseFail
    ELSE LET s2 == SkipWs(Tail(s1)) IN
         IF s2 = <<>> \/ Head(s2) # P(":") THEN ParseFail
         ELSE LET r == ParseValue(Tail(s2)) IN
              IF ~r.ok THEN ParseFail
              ELSE LET s3 == SkipWs(r.rest)
                       acc2 == Put(acc, Head(s1).v, r.val) IN
                   IF s3 = <<>> THEN ParseFail
                   ELSE IF Head(s3) = P(",") THEN ParseMembers(Tail(s3), acc2)
                   ELSE IF Head(s3) = P("}") THEN ParseOk(JObj(acc2), Tail(s3))
                   ELSE ParseFail

\* JSON.parse(text): [ok, val]
JSONparse(text) ==
    LET r == ParseValue(text) IN
    IF r.ok /\ SkipWs(r.rest) = <<>> THEN [ok |-> TRUE, val |-> r.val]
    ELSE [ok |-> FALSE, val |-> JNull]

(***************************************************************************)
(* File system (node:fs, synchronous calls).  Every call returns           *)
(* [ok, dirs, files]; ok = FALSE is a thrown error and leaves both as      *)
(* they were.                                                              *)
(***************************************************************************)
Parent(p) == SubSeq(p, 1, Len(p) - 1)
Prefixes(p) == {SubSeq(p, 1, n) : n \in 0..Len(p)}
IsPrefix(p, q) == Len(p) <= Len(q) /\ SubSeq(q, 1, Len(p)) = p
IsFile(fl, p) == p \in DOMAIN fl
\* fs.existsSync
existsSync(ds, fl, p) == p \in ds \/ IsFile(fl, p)

FsThrow(ds, fl) == [ok |-> FALSE, dirs |-> ds, files |-> fl]
FsOk(ds, fl) == [ok |-> TRUE, dirs |-> ds, files |-> fl]

\* path.join / path resolution against the working directory
Resolve(wd, p) == wd \o p

\* fs.mkdirSync(p) and fs.mkdirSync(p, { recursive: true })
mkdirSync(ds, fl, p, recursive) ==
    IF recursive
    THEN IF \E q \in Prefixes(p) : IsFile(fl, q) THEN FsThrow(ds, fl)
         ELSE FsOk(ds \cup Prefixes(p), fl)
    ELSE IF existsSync(ds, fl, p) \/ Parent(p) \notin ds THEN FsThrow(ds, fl)
         ELSE FsOk(ds \cup {p}, fl)

\* fs.writeFileSync(p, text)
writeFileSync(ds, fl, p, text) ==
    IF p \in ds \/ Parent(p) \notin ds THEN FsThrow(ds, fl)
    ELSE FsOk(ds, [q \in (DOMAIN fl) \cup {p} |-> IF q = p THEN text ELSE fl[q]])

(***************************************************************************)
(* fs-extra (ensureDirSync, emptyDirSync, copySync).                       *)
(***************************************************************************)
\* fs.ensureDirSync(p): mkdir -p
ensureDirSync(ds, fl, p) == mkdirSync(ds, fl, p, TRUE)

\* fs.emptyDirSync(p): every item of the directory p is removed with all that
\* is below it; when p cannot be listed, p is made (which throws on a file)
emptyDirSync(ds, fl, p) ==
    IF p \in ds
    THEN FsOk({q \in ds : ~(IsPrefix(p, q) /\ q # p)},
              [q \in {x \in DOMAIN fl : ~IsPrefix(p, x)} |-> fl[q]])
    ELSE mkdirSync(ds, fl, p, TRUE)

\* fs.removeSync(p): p is removed with all that is below it; nothing when p
\* is not there
removeSync(ds, fl, p) ==
    FsOk({q \in ds : ~IsPrefix(p, q)},
         [q \in {x \in DOMAIN fl : ~IsPrefix(p, x)} |-> fl[q]])

\* where the entry q of src goes below dest
Rebase(src, dest, q) == dest \o SubSeq(q, Len(src) + 1, Len(q))

\* src and every entry below it
CopyEntries(ds, fl, src) == {q \in ds \cup DOMAIN fl : IsPrefix(src, q)}

\* checkPathsSync: a directory never replaces a file, nor a file a directory
CopyConflict(ds, fl, src, dest, q) ==
    \/ q \in ds /\ IsFile(fl, Rebase(src, dest, q))
    \/ IsFile(fl, q) /\ Rebase(src, dest, q) \in ds

\* the copy is refused before anything is copied: no source, source and
\* destination the same, destination inside the source, or the two of
\* different kinds
CopyRefused(ds, fl, src, dest) ==
    \/ ~existsSync(ds, fl, src)
    \/ src = dest
    \/ src \in ds /\ IsPrefix(src, dest)
    \/ CopyConflict(ds, fl, src, dest, src)
    \/ \E q \in Prefixes(Parent(dest)) : IsFile(fl, q)

\* the sets of entries copySync may have copied when it returns or throws.
\* With no conflict it is every entry.  With a conflict the copy stops at the
\* first conflicting entry that readdirSync lists, whose order is the file
\* system's: any set of entries without conflict that holds the directory
\* of each of its entries may have been copied by then.
CopyOutcomes(ds, fl, src, dest) ==
    IF CopyRefused(ds, fl, src, dest) THEN {{}}
    ELSE LET all == CopyEntries(ds, fl, src)
             bad == {q \in all : CopyConflict(ds, fl, src, dest, q)}
         IN  IF bad = {} THEN {all}
             ELSE {S \in SUBSET (all \ bad) :
                      /\ src \in S
                      /\ \A q \in S : q = src \/ Parent(q) \in S}

\* overwrite: false, a file that is already at the destination is kept
copySync_NoOverwrite(ds, fl, src, dest, part) ==
    IF part = {} THEN FsThrow(ds, fl)
    ELSE LET made == ds \cup Prefixes(Parent(dest))
                        \cup {Rebase(src, dest, q) : q \in part \cap ds}
             from == [t \in {Rebase(src, dest, q) : q \in part \cap DOMAIN fl} |->
                        CHOOSE q \in part \cap DOMAIN fl : Rebase(src, dest, q) = t]
             wrote == [t \in DOMAIN fl \cup DOMAIN from |->
                         IF t \in DOMAIN fl THEN fl[t] ELSE fl[from[t]]]
         IN  [ok |-> part = CopyEntries(ds, fl, src), dirs |-> made, files |-> wrote]

\* fs.copySync(src, dest, { overwrite: true }), having copied the entries part
copySync(ds, fl, src, dest, part) ==
    IF part = {} THEN FsThrow(ds, fl)
    ELSE LET made == ds \cup Prefixes(Parent(dest))
                        \cup {Rebase(src, dest, q) : q \in part \cap ds}
             from == [t \in {Rebase(src, dest, q) : q \in part \cap DOMAIN fl} |->
                        CHOOSE q \in part \cap DOMAIN fl : Rebase(src, dest, q) = t]
             wrote == [t \in DOMAIN fl \cup DOMAIN from |->
                         IF t \in DOMAIN from THEN fl[from[t]] ELSE fl[t]]
         IN  [ok |-> part = CopyEntries(ds, fl, src), dirs |-> made, files |-> wrote]

(***************************************************************************)
(* The helpers of utils/index.ts, as functions of the file system.         *)
(***************************************************************************)
\* the content added at the end of the file that is there (appendFileSync)
writeFile_Append(ds, fl, filePath, content) ==
    LET made == mkdirSync(ds, fl, Parent(filePath), TRUE) IN
    IF ~made.ok THEN FsThrow(ds, fl)
    ELSE LET was == IF IsFile(fl, filePath) THEN fl[filePath] ELSE <<>>
             wrote == writeFileSync(made.dirs, made.files, filePath, was \o Trim(content))
         IN  IF wrote.ok THEN wrote ELSE FsThrow(ds, fl)

\* writeFile (68-71)
writeFile(ds, fl, filePath, content) ==
    LET made == mkdirSync(ds, fl, Parent(filePath), TRUE) IN
    IF ~made.ok THEN FsThrow(ds, fl)
    ELSE LET wrote == writeFileSync(made.dirs, made.files, filePath, Trim(content)) IN
         IF wrote.ok THEN wrote ELSE FsThrow(ds, fl)

\* writeJsonFile (78-80)
writeJsonFile(ds, fl, filePath, data) ==
    writeFile(ds, fl, filePath, JSONstringify(data, 2))

\* fileExists (125-127)
fileExists(ds, fl, filePath) == existsSync(ds, fl, filePath)

\* readJsonFile (144-149): [ok, val]; ok = FALSE is the thrown error
readJsonFile(ds, fl, filePath) ==
    IF ~existsSync(ds, fl, filePath) \/ filePath \in ds
    THEN [ok |-> FALSE, val |-> JNull]
    ELSE JSONparse(fl[filePath])

\* the own enumerable properties { ...x } copies: those of an object, the
\* indices of an array, the characters of a string, none of a number, a
\* boolean or null
Props(x) ==
    CASE x.t = "obj" -> x.v
      [] x.t = "arr" -> [i \in 1..Len(x.v) |-> <<ToString(i - 1), x.v[i]>>]
      [] x.t = "str" -> [i \in 1..Len(x.v) |-> <<ToString(i - 1), JStr(SubSeq(x.v, i, i))>>]
      [] x.t \in {"num", "bool", "null"} -> <<>>

\* a merge that goes into nested objects
RECURSIVE DeepPutAll(_, _)
DeepPutAll(ps, qs) ==
    IF qs = <<>> THEN ps
    ELSE LET k == Head(qs)[1]
             x == Head(qs)[2]
             old == IF \E i \in 1..Len(ps) : ps[i][1] = k
                    THEN ps[CHOOSE i \in 1..Len(ps) : ps[i][1] = k][2]
                    ELSE JNull
         IN  IF old.t = "obj" /\ x.t = "obj"
             THEN DeepPutAll(Put(ps, k, JObj(DeepPutAll(old.v, x.v))), Tail(qs))
             ELSE DeepPutAll(Put(ps, k, x), Tail(qs))

mergeData_Deep(currentData, newData) ==
    JObj(DeepPutAll(PutAll(<<>>, Props(currentData)), Props(newData)))

\* const mergedData = { ...currentData, ...newData } (158)
mergeData(currentData, newData) ==
    JObj(PutAll(PutAll(<<>>, Props(currentData)), Props(newData)))

\* updateJsonFile (156-160)
updateJsonFile(ds, fl, filePath, newData) ==
    LET currentData == IF fileExists(ds, fl, filePath)
                       THEN readJsonFile(ds, fl, filePath)
                       ELSE [ok |-> TRUE, val |-> JObj(<<>>)]
    IN  IF ~currentData.ok THEN FsThrow(ds, fl)
        ELSE writeJsonFile(ds, fl, filePath, mergeData(currentData.val, newData))

\* what a helper printed and how it ended, with the file system it left
Printed(r, log) == [ok |-> r.ok, dirs |-> r.dirs, files |-> r.files, log |-> log]

\* const templateDir / const targetDir of copyCliPackageTemplate (19-20)
templateDir(cliRoot, templateType) == cliRoot \o <<"templates", templateType>>
targetDir(monorepoRoot, repo, packageName) == monorepoRoot \o <<repo, packageName>>

\* what copySync may have copied when copyCliPackageTemplate calls it (34)
TemplateOutcomes(ds, fl, templateType, packageName, monorepoRoot, repo, cliRoot) ==
    LET made == ensureDirSync(ds, fl, targetDir(monorepoRoot, repo, packageName)) IN
    IF existsSync(ds, fl, templateDir(cliRoot, templateType)) /\ made.ok
    THEN CopyOutcomes(made.dirs, made.files, templateDir(cliRoot, templateType),
                      targetDir(monorepoRoot, repo, packageName))
    ELSE {{}}

\* the target directory made before the template is looked for
copyCliPackageTemplate_EnsureFirst(ds, fl, templateType, packageName, monorepoRoot, repo, cliRoot, part) ==
    LET made == ensureDirSync(ds, fl, targetDir(monorepoRoot, repo, packageName)) IN
    IF ~made.ok THEN Printed(FsThrow(ds, fl), <<"log", "log">>)
    ELSE IF ~existsSync(ds, fl, templateDir(cliRoot, templateType))
    THEN Printed(made, <<"log", "log", "error">>)
    ELSE LET copied == copySync(made.dirs, made.files,
                                templateDir(cliRoot, templateType),
                                targetDir(monorepoRoot, repo, packageName), part)
         IN  Printed(copied, IF copied.ok THEN <<"log", "log", "log">>
                             ELSE <<"log", "log">>)

\* copyCliPackageTemplate (12-39): [ok, dirs, files, log], log the console
\* methods called in order
copyCliPackageTemplate(ds, fl, templateType, packageName, monorepoRoot, repo, cliRoot, part) ==
    IF ~existsSync(ds, fl, templateDir(cliRoot, templateType))
    THEN Printed(FsOk(ds, fl), <<"log", "log", "error">>)
    ELSE LET made == ensureDirSync(ds, fl, targetDir(monorepoRoot, repo, packageName)) IN
         IF ~made.ok THEN Printed(FsThrow(ds, fl), <<"log", "log">>)
         ELSE LET copied == copySync(made.dirs, made.files,
                                     templateDir(cliRoot, templateType),
                                     targetDir(monorepoRoot, repo, packageName), part)
              IN  Printed(copied, IF copied.ok THEN <<"log", "log", "log">>
                                  ELSE <<"log", "log">>)

\* removeGitDirectory (55-61): [ok, dirs, files, log]
removeGitDirectory(ds, fl, appDir, name) ==
    IF existsSync(ds, fl, appDir \o <<".git">>)
    THEN Printed(removeSync(ds, fl, appDir \o <<".git">>), <<"log">>)
    ELSE Printed(FsOk(ds, fl), <<>>)

\* createDirIfNotExists (86-90)
createDirIfNotExists(ds, fl, dirPath) ==
    IF ~existsSync(ds, fl, dirPath) THEN mkdirSync(ds, fl, dirPath, TRUE) ELSE FsOk(ds, fl)

\* res is what execSync did: the command was started or could not be (no
\* such working directory, which throws too), and when started it ended with
\* a status having printed stdout
\* runCommand (97-103): console.log, then execSync; [ok, ret, log]
runCommand(res) ==
    [ok |-> res.started /\ res.status = 0, ret |-> JNull, log |-> <<"log">>]

\* runCommandWithResult (113-118): the trimmed output of the command
runCommandWithResult(res) ==
    IF res.started /\ res.status = 0
    THEN [ok |-> TRUE, ret |-> JStr(Join(TrimChars(res.stdout))), log |-> <<>>]
    ELSE [ok |-> FALSE, ret |-> JNull, log |-> <<>>]

\* logWithColor (167-172): console.log(color(message))
logWithColor(message) == [ok |-> TRUE, ret |-> JNull, log |-> <<"log">>]

\* the directory emptied without asking whether it is there
clearDirectory_NoGuard(ds, fl, dirPath) == emptyDirSync(ds, fl, dirPath)

\* clearDirectory (133-137)
clearDirectory(ds, fl, dirPath) ==
    IF existsSync(ds, fl, dirPath) THEN emptyDirSync(ds, fl, dirPath) ELSE FsOk(ds, fl)

(***************************************************************************)
(* Statements of a command handler.  A handler is the sequence of its      *)
(* effects in program order; `line` is the source line of the call.        *)
(***************************************************************************)
Stmt(op, path, rec, text, cmd, line) ==
    [op |-> op, path |-> path, rec |-> rec, text |-> text, cmd |-> cmd, line |-> line]

\* fs.mkdirSync(path) / fs.mkdirSync(path, { recursive: true })
SMkdir(path, rec, line)   == Stmt("mkdir", path, rec, <<>>, "", line)
\* fs.writeFileSync(path, text)
SWrite(path, text, line)  == Stmt("write", path, FALSE, text, "", line)
\* process.chdir(path)
SChdir(path, line)        == Stmt("chdir", path, FALSE, <<>>, "", line)
\* execSync(cmd, { stdio: "inherit", cwd: path }); path = <<>> is no cwd option
SExec(cmd, path, line)    == Stmt("exec", path, FALSE, <<>>, cmd, line)
\* const pnpmVersion = getPnpmVersion()
SDetect(line)             == Stmt("detect", <<>>, FALSE, <<>>, "pnpm --version", line)
\* type = await select(...)
SSelect(line)             == Stmt("select", <<>>, FALSE, <<>>, "", line)
\* the closing console.log(`... initialized successfully!`)
SNotice(line)             == Stmt("notice", <<>>, FALSE, <<>>, "", line)

(***************************************************************************)
(* createPackage (index.ts 17-87)                                          *)
(***************************************************************************)
pkg_defaultScripts ==
    JObj(<< <<"build", JStr("tsup --clean")>>,
            <<"check-types", JStr("tsc --noEmit")>>,
            <<"dev", JStr("tsup --watch")>> >>)

\* const packageJson of createPackage; scripts is options?.scripts (JObj(<<>>) when absent)
pkg_packageJson(packageName, scripts) ==
    JObj(<< <<"name", JStr("@repo/" \o packageName)>>,
            <<"private", JBool(TRUE)>>,
            <<"type", JStr("module")>>,
            <<"exports", JObj(<< <<".", JObj(<< <<"types", JStr("./src/index.ts")>>,
                                                <<"default", JStr("./dist/index.js")>> >>)>> >>)>>,
            <<"scripts", Spread(pkg_defaultScripts, scripts)>> >>)

pkg_tsConfig ==
    JObj(<< <<"extends", JStr("@repo/typescript-config/base.json")>>,
            <<"compilerOptions", JObj(<< <<"outDir", JStr("./dist")>> >>)>>,
            <<"include", JArr(<<JStr("src/**/*")>>)>>,
            <<"exclude", JArr(<<JStr("node_modules")>>)>> >>)

pkg_tsupConfig ==
    <<NL, R("import { defineConfig } from \"tsup\"; export default defineConfig({ entry: [\"src/index.ts\"], format: [\"esm\"], splitting: false, sourcemap: true, clean: true });"), NL>>

\* Object.entries(files).forEach: mkdirSync(dirname, recursive) then writeFileSync
RECURSIVE pkg_writeFiles(_, _)
pkg_writeFiles(packageDir, fs) ==
    IF fs = <<>> THEN <<>>
    ELSE LET fullPath == packageDir \o Head(fs)[1] IN
         << SMkdir(Parent(fullPath), TRUE, 78), SWrite(fullPath, Head(fs)[2], 79) >>
         \o pkg_writeFiles(packageDir, Tail(fs))

pkg_install(packageDir) ==
    << SExec("pnpm add -D tsup typescript @repo/typescript-config@workspace:*", packageDir, 83) >>

\* createPackage running its install before it writes the sources
createPackage_InstallBeforeSources(packageName, fs, scripts) ==
    LET packageDir == <<"packages", packageName>> IN
    << SMkdir(packageDir, TRUE, 25),
       SMkdir(packageDir \o <<"src">>, FALSE, 26),
       SWrite(packageDir \o <<"package.json">>,
              JSONstringify(pkg_packageJson(packageName, scripts), 2), 45) >>
    \o pkg_install(packageDir)
    \o << SWrite(packageDir \o <<"tsconfig.json">>, JSONstringify(pkg_tsConfig, 2), 58),
          SWrite(packageDir \o <<"tsup.config.ts">>, pkg_tsupConfig, 74) >>
    \o pkg_writeFiles(packageDir, fs)

createPackage(packageName, fs, scripts) ==
    LET packageDir == <<"packages", packageName>> IN
    << SMkdir(packageDir, TRUE, 25),
       SMkdir(packageDir \o <<"src">>, FALSE, 26),
       SWrite(packageDir \o <<"package.json">>,
              JSONstringify(pkg_packageJson(packageName, scripts), 2), 45),
       SWrite(packageDir \o <<"tsconfig.json">>, JSONstringify(pkg_tsConfig, 2), 58),
       SWrite(packageDir \o <<"tsup.config.ts">>, pkg_tsupConfig, 74) >>
    \o pkg_writeFiles(packageDir, fs)
    \o pkg_install(packageDir)

(***************************************************************************)
(* getPnpmVersion, twice in the repository.  res is what execSync did:     *)
(* [status, stdout]; a nonzero status is the exception execSync throws.    *)
(***************************************************************************)
\* getPnpmVersion without its .trim()
getPnpmVersion_NoTrim(res) ==
    IF res.status = 0
    THEN [ret |-> Join(res.stdout), warn |-> FALSE]
    ELSE [ret |-> "9.7.0", warn |-> TRUE]

\* index.ts 8-15
getPnpmVersion(res) ==
    IF res.status = 0
    THEN [ret |-> Join(TrimChars(res.stdout)), warn |-> FALSE]
    ELSE [ret |-> "9.7.0", warn |-> TRUE]

\* utils/index.ts 41-48
utils_getPnpmVersion(res) ==
    IF res.status = 0
    THEN [ret |-> Join(TrimChars(res.stdout)), warn |-> FALSE]
    ELSE [ret |-> "9.15.4", warn |-> TRUE]

(***************************************************************************)
(* initializeMonorepo (index.ts 89-410)                                    *)
(***************************************************************************)
init_workspaceYaml ==
    <<R("packages:"), NL, SP, SP, R("- \"apps/*\""), NL, SP, SP, R("- \"packages/*\""), NL>>

init_packageJson(appName, ver) ==
    JObj(<< <<"name", JStr(Join(appName))>>,
            <<"private", JBool(TRUE)>>,
            <<"packageManager", JStr("pnpm@" \o ver)>>,
            <<"scripts", JObj(<< <<"build", JStr("turbo run build")>>,
                                 <<"dev", JStr("turbo run dev")>>,
                                 <<"lint", JStr("turbo run lint")>>,
                                 <<"check-types", JStr("turbo run check-types")>>,
                                 <<"test", JStr("turbo run test")>> >>)>>,
            <<"devDependencies", JObj(<< <<"turbo", JStr("latest")>> >>)>> >>)

turboConfig ==
    JObj(<< <<"$schema", JStr("https://turbo.build/schema.json")>>,
            <<"ui", JStr("tui")>>,
            <<"tasks", JObj(<<
                <<"build", JObj(<< <<"dependsOn", JArr(<<JStr("^build")>>)>>,
                                   <<"inputs", JArr(<<JStr("$TURBO_DEFAULT$"), JStr(".env*")>>)>>,
                                   <<"outputs", JArr(<<JStr(".next/**"), JStr("!.next/cache/**"),
                                                       JStr("dist/**")>>)>> >>)>>,
                <<"check-types", JObj(<< <<"dependsOn", JArr(<<JStr("^check-types")>>)>> >>)>>,
                <<"dev", JObj(<< <<"cache", JBool(FALSE)>>, <<"persistent", JBool(TRUE)>> >>)>>,
                <<"test", JObj(<< <<"cache", JBool(FALSE)>>, <<"persistent", JBool(TRUE)>> >>)>>
            >>)>> >>)

\* prettier.format(text, { parser: "json" }): the same JSON value laid out again,
\* with the newline prettier ends a file with
prettierFormat(text) == JSONstringify(JSONparse(text).val, 2) \o <<NL>>

tsConfigPackageJson ==
    JObj(<< <<"name", JStr("@repo/typescript-config")>>,
            <<"version", JStr("1.0.0")>>,
            <<"private", JBool(TRUE)>>,
            <<"license", JStr("MIT")>>,
            <<"publishConfig", JObj(<< <<"access", JStr("public")>> >>)>> >>)

tsConfigBase ==
    JObj(<< <<"$schema", JStr("https://json.schemastore.org/tsconfig")>>,
            <<"extends", JStr("@tsconfig/node20/tsconfig.json")>>,
            <<"compilerOptions", JObj(<< <<"module", JStr("ESNext")>>,
                                         <<"moduleResolution", JStr("Bundler")>> >>)>> >>)

dockerComposeConfig(appName) ==
    <<NL, R("services: postgres: image: postgres:16 environment: POSTGRES_USER: postgres POSTGRES_PASSWORD: postgres POSTGRES_DB:"),
      SP, R(Join(ReplaceHyphens(appName)) \o "_dev"), NL,
      R("ports: - \"5432:5432\" volumes: - /var/lib/postgresql/data redis: image: redis:6.2-alpine ports: - \"6379:6379\""), NL>>

dockerDevPackageJson ==
    JObj(<< <<"name", JStr("@repo/docker-dev")>>,
            <<"private", JBool(TRUE)>>,
            <<"scripts", JObj(<< <<"dev", JStr("docker compose up")>>,
                                 <<"db:reset", JStr("docker compose rm --force --stop postgres && docker compose up -d")>> >>)>>,
            <<"devDependencies", JObj(<< <<"typescript", JStr("^5.5.4")>> >>)>> >>)

gitignoreContent ==
    <<NL, R("# Dependencies node_modules # Builds .next/ dist/ # Misc .DS_Store *.pem # Debug npm-debug.log* yarn-debug.log* yarn-error.log* # Local env files .env*.local # Turbo .turbo"), NL>>

db_files ==
    << << <<"prisma", "schema.prisma">>,
          <<NL, R("generator client { provider = \"prisma-client-js\" } datasource db { ... } model Post { ... } model User { ... }"), NL>> >>,
       << <<"src", "util.ts">>,
          <<NL, R("import { customAlphabet } from \"nanoid\"; export const genId = customAlphabet(..., 12);"), NL>> >>,
       << <<"src", "index.ts">>,
          <<NL, R("export { Prisma, PrismaClient } from \"@prisma/client\"; export { db } from \"./db\"; export { genId } from \"./util\";"), NL>> >>,
       << <<"src", "db.ts">>,
          <<NL, R("import { PrismaClient } from \"@prisma/client\"; let db: PrismaClient; ... export { db };"), NL>> >> >>

db_scripts ==
    JObj(<< <<"build", JStr("pnpm build:prisma && tsup --clean")>>,
            <<"build:prisma", JStr("prisma generate")>>,
            <<"check-types", JStr("tsc --noEmit")>>,
            <<"dev", JStr("tsup --watch")>>,
            <<"migrate", JStr("prisma migrate")>>,
            <<"push", JStr("prisma db push")>> >>)

queue_files ==
    << << <<"src", "index.ts">>,
          <<NL, R("import { Queue, QueueEvents } from \"bullmq\"; import Redis from \"ioredis\"; ... export async function enqueueAndWait(...) { ... }"), NL>> >> >>

\* the root made and never entered
init_root_NoChdir(appName) ==
    << SMkdir(<<Join(appName)>>, FALSE, 91) >>

\* the root made with { recursive: true }, which accepts a directory that is there
init_root_Recursive(appName) ==
    << SMkdir(<<Join(appName)>>, TRUE, 91), SChdir(<<Join(appName)>>, 92) >>

\* 91-92
init_root(appName) ==
    << SMkdir(<<Join(appName)>>, FALSE, 91), SChdir(<<Join(appName)>>, 92) >>

\* 95-102
init_workspace ==
    << SWrite(<<"pnpm-workspace.yaml">>, init_workspaceYaml, 95),
       SMkdir(<<"apps">>, FALSE, 101),
       SMkdir(<<"packages">>, FALSE, 102) >>

\* 105-121
init_manifest(appName, ver) ==
    << SDetect(105),
       SWrite(<<"package.json">>, JSONstringify(init_packageJson(appName, ver), 2), 121) >>

\* 125
init_addTypes == << SExec("pnpm add -w -D @types/node", <<>>, 125) >>

\* 128-154
init_turbo ==
    << SWrite(<<"turbo.json">>, prettierFormat(JSONstringify(turboConfig, 0)), 154) >>

\* the install of the base-config package run without its cwd option
init_typescriptConfig_NoCwd ==
    << SMkdir(<<"packages", "typescript-config">>, TRUE, 157),
       SWrite(<<"packages", "typescript-config", "package.json">>,
              JSONstringify(tsConfigPackageJson, 2), 169),
       SExec("pnpm add -D @tsconfig/node20", <<>>, 176),
       SWrite(<<"packages", "typescript-config", "base.json">>,
              JSONstringify(tsConfigBase, 2), 190) >>

\* 157-193
init_typescriptConfig ==
    << SMkdir(<<"packages", "typescript-config">>, TRUE, 157),
       SWrite(<<"packages", "typescript-config", "package.json">>,
              JSONstringify(tsConfigPackageJson, 2), 169),
       SExec("pnpm add -D @tsconfig/node20", <<"packages", "typescript-config">>, 176),
       SWrite(<<"packages", "typescript-config", "base.json">>,
              JSONstringify(tsConfigBase, 2), 190) >>

\* 196-232
init_dockerDev(appName) ==
    << SMkdir(<<"packages", "docker-dev">>, FALSE, 214),
       SWrite(<<"packages", "docker-dev", "compose.yml">>, dockerComposeConfig(appName), 215),
       SWrite(<<"packages", "docker-dev", "package.json">>,
              JSONstringify(dockerDevPackageJson, 2), 229) >>

\* 235-259
init_gitignore == << SWrite(<<".gitignore">>, Trim(gitignoreContent), 259) >>

\* 263
init_install == << SExec("pnpm install", <<>>, 263) >>

\* 266-366
init_db ==
    createPackage("db", db_files, db_scripts)
    \o << SExec("pnpm add @prisma/client nanoid", <<"packages", "db">>, 359),
          SExec("pnpm add -D prisma", <<"packages", "db">>, 363) >>

\* 368-407
init_queue ==
    createPackage("queue", queue_files, JObj(<<>>))
    \o << SExec("pnpm add bullmq ioredis", <<"packages", "queue">>, 404) >>

\* initializeMonorepo writing turbo.json before the root `pnpm add`
initializeMonorepo_TurboFirst(appName, ver) ==
    init_root(appName) \o init_workspace \o init_manifest(appName, ver)
    \o init_turbo \o init_addTypes \o init_typescriptConfig \o init_dockerDev(appName)
    \o init_gitignore \o init_install \o init_db \o init_queue
    \o << SNotice(409) >>

\* initializeMonorepo running the root `pnpm add` before it writes package.json
initializeMonorepo_AddBeforeManifest(appName, ver) ==
    init_root(appName) \o init_workspace \o init_addTypes \o init_manifest(appName, ver)
    \o init_turbo \o init_typescriptConfig \o init_dockerDev(appName)
    \o init_gitignore \o init_install \o init_db \o init_queue
    \o << SNotice(409) >>

\* the statements of initializeMonorepo(appName) in program order; ver is the
\* value of const pnpmVersion
initializeMonorepo(appName, ver) ==
    init_root(appName) \o init_workspace \o init_manifest(appName, ver)
    \o init_addTypes \o init_turbo \o init_typescriptConfig \o init_dockerDev(appName)
    \o init_gitignore \o init_install \o init_db \o init_queue
    \o << SNotice(409) >>

(***************************************************************************)
(* initializeApp (index.ts 412-498)                                        *)
(***************************************************************************)
\* the app manifest named without its scope
app_packageJson_Unscoped(name) ==
    JObj(<< <<"name", JStr(name)>>,
            <<"private", JBool(TRUE)>>,
            <<"type", JStr("module")>>,
            <<"scripts", JObj(<< <<"build", JStr("tsup --clean")>>,
                                 <<"check-types", JStr("tsc --noEmit")>>,
                                 <<"dev", JStr("tsup --watch --onSuccess 'pnpm start'")>>,
                                 <<"start", JStr("node dist/index.js")>> >>)>> >>)

app_packageJson(name) ==
    JObj(<< <<"name", JStr("@repo/" \o name)>>,
            <<"private", JBool(TRUE)>>,
            <<"type", JStr("module")>>,
            <<"scripts", JObj(<< <<"build", JStr("tsup --clean")>>,
                                 <<"check-types", JStr("tsc --noEmit")>>,
                                 <<"dev", JStr("tsup --watch --onSuccess 'pnpm start'")>>,
                                 <<"start", JStr("node dist/index.js")>> >>)>> >>)

app_tsupConfig ==
    <<NL, R("import { defineConfig } from \"tsup\"; export default defineConfig({ entry: [\"src/index.ts\"], format: [\"esm\"], splitting: false, sourcemap: true });"), NL>>

app_tsConfig == JObj(<< <<"extends", JStr("@repo/typescript-config/base.json")>> >>)

app_greeting == <<R("console.log(\"Hello, World!\");")>>

\* @repo/db installed before the scaffolder has run
app_next_InstallFirst(name, appDir) ==
    << SExec("pnpm add @repo/db@workspace:*", appDir, 434),
       SExec("npx create-next-app@latest apps/" \o name \o " --typescript --eslint --use-pnpm",
             <<>>, 427) >>

\* 427-437
app_next(name, appDir) ==
    << SExec("npx create-next-app@latest apps/" \o name \o " --typescript --eslint --use-pnpm",
             <<>>, 427),
       SExec("pnpm add @repo/db@workspace:*", appDir, 434) >>

\* the development dependencies installed before the base-config dependency
app_node_InstallsSwapped(name, appDir) ==
    << SWrite(appDir \o <<"package.json">>, JSONstringify(app_packageJson(name), 2), 451),
       SWrite(appDir \o <<"tsup.config.ts">>, app_tsupConfig, 467),
       SWrite(appDir \o <<"tsconfig.json">>, JSONstringify(app_tsConfig, 2), 473),
       SMkdir(appDir \o <<"src">>, FALSE, 479),
       SWrite(appDir \o <<"src", "index.ts">>, app_greeting, 480),
       SExec("pnpm add -D tsup typescript", appDir, 491),
       SExec("pnpm add @repo/typescript-config@workspace:*", appDir, 487) >>

\* 440-494
app_node(name, appDir) ==
    << SWrite(appDir \o <<"package.json">>, JSONstringify(app_packageJson(name), 2), 451),
       SWrite(appDir \o <<"tsup.config.ts">>, app_tsupConfig, 467),
       SWrite(appDir \o <<"tsconfig.json">>, JSONstringify(app_tsConfig, 2), 473),
       SMkdir(appDir \o <<"src">>, FALSE, 479),
       SWrite(appDir \o <<"src", "index.ts">>, app_greeting, 480),
       SExec("pnpm add @repo/typescript-config@workspace:*", appDir, 487),
       SExec("pnpm add -D tsup typescript", appDir, 491) >>

\* initializeApp asking the prompt whether or not a variant was passed
initializeApp_AlwaysPrompt(name, given, ty) ==
    LET appDir == <<"apps", name>> IN
    << SSelect(414) >>
    \o << SMkdir(appDir, TRUE, 424) >>
    \o (IF ty = "next" THEN app_next(name, appDir)
        ELSE IF ty = "node" THEN app_node(name, appDir)
        ELSE <<>>)
    \o << SNotice(497) >>

\* the statements of initializeApp(name, type): given is the argument as passed
\* ("" for undefined), ty the current value of the parameter
initializeApp(name, given, ty) ==
    LET appDir == <<"apps", name>> IN
    (IF given = "" THEN << SSelect(414) >> ELSE <<>>)
    \o << SMkdir(appDir, TRUE, 424) >>
    \o (IF ty = "next" THEN app_next(name, appDir)
        ELSE IF ty = "node" THEN app_node(name, appDir)
        ELSE <<>>)
    \o << SNotice(497) >>

\* the action of `app <name>` (index.ts 515-518)
appType(options) == IF options.next THEN "next" ELSE IF options.node THEN "node" ELSE ""

(***************************************************************************)
(* The command line process (index.ts 500-520).                            *)
(***************************************************************************)
Names == { <<"w", "s">>, <<"a", "-", "b">> }

OutChars == {"9", " ", "\n"}

\* what `pnpm --version` may print
VersionOutputs == UNION {[1..n -> OutChars] : n \in 0..MaxOutLen}

\* Node ends a process whose promise rejection nobody handles with status 1:
\* neither action awaits or catches its handler (508, 515-518, 520)
UncaughtExitCode == 1

EmptyFiles == [p \in {} |-> <<>>]

OldText == <<R("old"), NL>>

\* what may be in the start directory before the command runs
InitialTrees(n) ==
    { [dirs |-> {<<>>}, files |-> EmptyFiles],
      [dirs |-> {<<>>, <<n>>}, files |-> EmptyFiles],
      [dirs |-> {<<>>}, files |-> [p \in {<<n>>} |-> OldText]],
      [dirs |-> {<<>>, <<"apps">>}, files |-> EmptyFiles],
      [dirs |-> {<<>>, <<"apps">>, <<"apps", n>>},
       files |-> [p \in {<<"apps", n, "package.json">>} |-> OldText]],
      [dirs |-> {<<>>, <<"apps">>, <<"apps", n>>, <<"apps", n, "src">>},
       files |-> [p \in {<<"apps", n, "src", "index.ts">>} |-> OldText]] }

\* a call as the next call remembers it
Seen(c) == [op |-> c.op, path |-> c.path, data |-> c.data, ok |-> c.ok]

\* last: the helper called, its arguments, whether it returned (ok) or threw,
\* what it returned, the file system it was called on, the template it was
\* given (src) and the console methods it called (log), and the call before it
Call(op, path, data, ok, ret, ds, fl) ==
    [op |-> op, path |-> path, data |-> data, ok |-> ok, ret |-> ret,
     dirs |-> ds, files |-> fl, src |-> <<>>, log |-> <<>>, prev |-> Seen(last)]
NoCall ==
    [op |-> "none", path |-> <<>>, data |-> JNull, ok |-> TRUE, ret |-> JNull,
     dirs |-> {}, files |-> EmptyFiles, src |-> <<>>, log |-> <<>>,
     prev |-> [op |-> "none", path |-> <<>>, data |-> JNull, ok |-> TRUE]]

Init ==
    /\ \E nm \in Names, c \in {"init", "app"}, nx \in BOOLEAN, nd \in BOOLEAN :
          /\ c = "init" => (~nx /\ ~nd)
          /\ argv = [cmd |-> c, name |-> nm, next |-> nx, node |-> nd]
          /\ \E tree \in InitialTrees(Join(nm)) :
                /\ dirs = tree.dirs
                /\ files = tree.files
    /\ cwd = <<>>
    /\ pc = 1
    /\ state = "running"
    /\ exitCode = 0
    /\ pnpmVersion = ""
    /\ type = IF argv.cmd = "app" THEN appType(argv) ELSE ""
    /\ trace = <<>>
    /\ warned = FALSE
    /\ last = NoCall
    /\ calls = 0

\* the handler commander calls, as its statements
Program ==
    IF argv.cmd = "init"
    THEN initializeMonorepo(argv.name, pnpmVersion)
    ELSE initializeApp(Join(argv.name), appType(argv), type)

\* the statement the handler is about to run (none once it has ended)
Current == IF state = "running" /\ pc <= Len(Program) THEN {Program[pc]} ELSE {}

\* one entry of trace: what was done, where, and how it ended
Ev(op, path, cmd, status, out) ==
    [op |-> op, path |-> path, cmd |-> cmd, status |-> status, out |-> out]

\* the exception caught and the handler going on with its next statement
Throw_Swallowed ==
    /\ pc' = pc + 1
    /\ UNCHANGED <<state, exitCode>>

\* the rejection only warned about, the process ending with status 0
Throw_ExitZero ==
    /\ state' = "failed"
    /\ exitCode' = 0
    /\ UNCHANGED pc

\* an exception leaves the async handler: the promise rejects, nothing handles it
Throw ==
    /\ state' = "failed"
    /\ exitCode' = UncaughtExitCode
    /\ UNCHANGED pc

Advance ==
    /\ pc' = pc + 1
    /\ UNCHANGED <<state, exitCode>>

DoMkdir ==
    \E cur \in Current :
        /\ cur.op = "mkdir"
        /\ LET r == mkdirSync(dirs, files, Resolve(cwd, cur.path), cur.rec) IN
           IF r.ok
           THEN /\ dirs' = r.dirs
                /\ trace' = Append(trace, Ev("mkdir", Resolve(cwd, cur.path), "", 0, <<>>))
                /\ Advance
           ELSE /\ UNCHANGED <<dirs, trace>>
                /\ Throw
        /\ UNCHANGED <<files, cwd, argv, pnpmVersion, type, warned, last, calls>>

DoWrite ==
    \E cur \in Current :
        /\ cur.op = "write"
        /\ LET r == writeFileSync(dirs, files, Resolve(cwd, cur.path), cur.text) IN
           IF r.ok
           THEN /\ files' = r.files
                /\ trace' = Append(trace, Ev("write", Resolve(cwd, cur.path), "", 0, <<>>))
                /\ Advance
           ELSE /\ UNCHANGED <<files, trace>>
                /\ Throw
        /\ UNCHANGED <<dirs, cwd, argv, pnpmVersion, type, warned, last, calls>>

DoChdir ==
    \E cur \in Current :
        /\ cur.op = "chdir"
        /\ IF Resolve(cwd, cur.path) \in dirs
           THEN /\ cwd' = Resolve(cwd, cur.path)
                /\ trace' = Append(trace, Ev("chdir", Resolve(cwd, cur.path), "", 0, <<>>))
                /\ Advance
           ELSE /\ UNCHANGED <<cwd, trace>>
                /\ Throw
        /\ UNCHANGED <<dirs, files, argv, pnpmVersion, type, warned, last, calls>>

\* execSync(cmd, { stdio: "inherit", cwd }): the command runs in Resolve(cwd, path)
\* and ends with some status; a nonzero status is thrown
DoExec ==
    \E cur \in Current :
        /\ cur.op = "exec"
        /\ IF Resolve(cwd, cur.path) \in dirs
           THEN \E st \in 0..MaxStatus :
                   /\ trace' = Append(trace, Ev("exec", Resolve(cwd, cur.path), cur.cmd, st, <<>>))
                   /\ IF st = 0 THEN Advance ELSE Throw
           ELSE /\ UNCHANGED trace
                /\ Throw
        /\ UNCHANGED <<dirs, files, cwd, argv, pnpmVersion, type, warned, last, calls>>

\* const pnpmVersion = getPnpmVersion(): `pnpm --version` ends with some status,
\* having printed out when the status is 0
DoDetect ==
    \E cur \in Current :
        /\ cur.op = "detect"
        /\ \E st \in 0..MaxStatus, out \in VersionOutputs :
              /\ st # 0 => out = <<>>
              /\ LET r == getPnpmVersion([status |-> st, stdout |-> out]) IN
                    /\ pnpmVersion' = r.ret
                    /\ warned' = r.warn
              /\ trace' = Append(trace, Ev("exec", cwd, cur.cmd, st, out))
        /\ Advance
        /\ UNCHANGED <<dirs, files, cwd, argv, type, last, calls>>

\* type = await select({ ... }): the user picks one of the two choices, or
\* leaves the prompt, which rejects
DoSelect ==
    \E cur \in Current :
        /\ cur.op = "select"
        /\ \/ \E choice \in {"next", "node"} :
                 /\ type' = choice
                 /\ trace' = Append(trace, Ev("select", <<>>, choice, 0, <<>>))
                 /\ Advance
           \/ /\ trace' = Append(trace, Ev("select", <<>>, "", 1, <<>>))
              /\ UNCHANGED type
              /\ Throw
        /\ UNCHANGED <<dirs, files, cwd, argv, pnpmVersion, warned, last, calls>>

\* console.log(`... initialized successfully!`)
DoNotice ==
    \E cur \in Current :
        /\ cur.op = "notice"
        /\ trace' = Append(trace, Ev("notice", <<>>, "", 0, <<>>))
        /\ Advance
        /\ UNCHANGED <<dirs, files, cwd, argv, pnpmVersion, type, warned, last, calls>>

\* the handler returned: its promise resolves and the process ends with status 0
Exit ==
    /\ state = "running" /\ pc = Len(Program) + 1
    /\ state' = "done"
    /\ exitCode' = 0
    /\ UNCHANGED <<dirs, files, cwd, argv, pc, pnpmVersion, type, trace, warned, last, calls>>

Next ==
    \/ DoMkdir
    \/ DoWrite
    \/ DoChdir
    \/ DoExec
    \/ DoDetect
    \/ DoSelect
    \/ DoNotice
    \/ Exit

Spec == Init /\ [][Next]_vars

(***************************************************************************)
(* Reading the trace.                                                      *)
(***************************************************************************)
IsInit == argv.cmd = "init"
IsApp == argv.cmd = "app"
Idx == 1..Len(trace)
\* the workspace root init creates, and the unit directory app creates
Root == <<Join(argv.name)>>
AppDir == <<"apps", Join(argv.name)>>

VersionCmd == "pnpm --version"
IsExec(e) == e.op = "exec"
\* an external command that ended with a nonzero status
Failed(e) == IsExec(e) /\ e.status # 0
\* ... other than the version query, whose failure getPnpmVersion catches
FatalFailed(e) == Failed(e) /\ e.cmd # VersionCmd
Wrote(p) == \E i \in Idx : trace[i].op = "write" /\ trace[i].path = p
Ran(cmd, wd) == \E i \in Idx : IsExec(trace[i]) /\ trace[i].cmd = cmd /\ trace[i].path = wd
                               /\ trace[i].status = 0
Noticed == \E i \in Idx : trace[i].op = "notice"

\* stages never go back along the trace
InOrder(St(_)) == \A i \in 1..(Len(trace) - 1) : St(trace[i]) <= St(trace[i + 1])
\* the trace starts in stage 1 and never jumps over a stage
NoneSkipped(St(_)) ==
    /\ trace # <<>> => St(trace[1]) = 1
    /\ \A i \in 1..(Len(trace) - 1) : St(trace[i + 1]) <= St(trace[i]) + 1

\* the stages of init that both readings of the list share
CommonStage(e) ==
    CASE e.op \in {"mkdir", "chdir"} /\ e.path = Root -> 1
      [] e.op = "write" /\ e.path = Root \o <<"pnpm-workspace.yaml">> -> 2
      [] e.op = "mkdir" /\ e.path \in {Root \o <<"apps">>, Root \o <<"packages">>} -> 2
      [] IsExec(e) /\ e.cmd = VersionCmd -> 3
      [] e.op = "write" /\ e.path = Root \o <<"package.json">> -> 3
      [] e.op = "write" /\ e.path = Root \o <<"turbo.json">> -> 5
      [] IsPrefix(Root \o <<"packages", "typescript-config">>, e.path) -> 6
      [] IsPrefix(Root \o <<"packages", "docker-dev">>, e.path) -> 6
      [] e.op = "write" /\ e.path = Root \o <<".gitignore">> -> 6
      [] OTHER -> 0

IsUnitEvent(e) ==
    \/ IsPrefix(Root \o <<"packages", "db">>, e.path)
    \/ IsPrefix(Root \o <<"packages", "queue">>, e.path)

\* the list as the claim gives it: the install at the root is state 4
ClaimedStage(e) ==
    CASE CommonStage(e) # 0 -> CommonStage(e)
      [] IsExec(e) /\ e.path = Root -> 4
      [] IsUnitEvent(e) -> 7
      [] e.op = "notice" -> 8
      [] OTHER -> 0

\* the list as the code runs it: `pnpm add -w -D @types/node` is state 4 and
\* `pnpm install` comes between the support packages and the units
RunStage(e) ==
    CASE CommonStage(e) # 0 -> CommonStage(e)
      [] IsExec(e) /\ e.path = Root /\ e.cmd = "pnpm add -w -D @types/node" -> 4
      [] IsExec(e) /\ e.path = Root /\ e.cmd = "pnpm install" -> 7
      [] IsUnitEvent(e) -> 8
      [] e.op = "notice" -> 9
      [] OTHER -> 0

(***************************************************************************)
(* C1                                                                      *)
(***************************************************************************)
\* C1 as stated: every run of init enters the states in the listed order,
\* none skipped: root, membership file and member directories, package.json,
\* the install at the workspace root, turbo.json, the support packages, the db
\* and queue units, Complete; the root install finishes before turbo.json is
\* written and before a support package is created.
C1_Original ==
    IsInit =>
        /\ InOrder(ClaimedStage)
        /\ NoneSkipped(ClaimedStage)
        /\ Wrote(Root \o <<"turbo.json">>) => Ran("pnpm install", Root)

\* C1 amended: every run of init enters these states in this order, none
\* skipped: (1) root created, (2) membership file written and apps/ and
\* packages/ created, (3) package.json written, (4) `pnpm add -w -D
\* @types/node` run at the root, (5) turbo.json written, (6) the support
\* packages created, (7) `pnpm install` run at the root, (8) the db and queue
\* units provisioned, (9) Complete.  The root `pnpm add` ends before turbo.json
\* is written; the root `pnpm install` runs after the support packages.
C1_StagesInOrder ==
    IsInit =>
        /\ InOrder(RunStage)
        /\ NoneSkipped(RunStage)
        /\ Wrote(Root \o <<"turbo.json">>) => Ran("pnpm add -w -D @types/node", Root)
        /\ Ran("pnpm install", Root) =>
              /\ Wrote(Root \o <<"packages", "typescript-config", "base.json">>)
              /\ Wrote(Root \o <<"packages", "docker-dev", "package.json">>)
        /\ state = "done" => \A k \in 1..9 : \E i \in Idx : RunStage(trace[i]) = k

\* an init run that went through all nine states
C1_Witness ==
    /\ IsInit /\ state = "done"
    /\ \A k \in 1..9 : \E i \in Idx : RunStage(trace[i]) = k

(***************************************************************************)
(* C2                                                                      *)
(***************************************************************************)
\* the statements that ran to their end are Program[1..pc-1], and trace[k] is
\* what Program[k] did
EffectsPersist ==
    LET prog == Program IN
    \A k \in 1..(pc - 1) :
        /\ prog[k].op = "mkdir" => trace[k].path \in dirs
        /\ prog[k].op = "write" =>
              /\ trace[k].path \in DOMAIN files
              /\ \/ files[trace[k].path] = prog[k].text
                 \/ \E m \in (k + 1)..(pc - 1) :
                       prog[m].op = "write" /\ trace[m].path = trace[k].path

HaltsAt(i) == i = Len(trace) /\ state = "failed" /\ ~Noticed

\* C2 as stated: when any external command of init or app exits nonzero the
\* run halts there: nothing is written or run afterwards, no success notice,
\* and what was created before is still there with its content.
C2_Original ==
    /\ \A i \in Idx : Failed(trace[i]) => HaltsAt(i)
    /\ state = "failed" => EffectsPersist

\* C2 amended: the same for every external command other than the version
\* query `pnpm --version`, after whose failure the run goes on.
C2_HaltNoRollback ==
    /\ [](/\ \A i \in Idx : FatalFailed(trace[i]) => HaltsAt(i)
          /\ state = "failed" => EffectsPersist)
    /\ [][state = "failed" => UNCHANGED <<dirs, files, cwd, trace>>]_vars

\* init stopped by a failing install after it had written files
C2_Witness ==
    /\ IsInit /\ state = "failed"
    /\ Len(trace) > 5 /\ FatalFailed(trace[Len(trace)])
    /\ Root \o <<"package.json">> \in DOMAIN files

(***************************************************************************)
(* C3                                                                      *)
(***************************************************************************)
\* C3: in init no package manager install or add command runs at the
\* workspace root before package.json has been written there.
C3_InstallAfterManifest ==
    IsInit =>
        \A i \in Idx :
            (IsExec(trace[i]) /\ trace[i].path = Root /\ trace[i].cmd # VersionCmd)
            => /\ \E j \in 1..(i - 1) :
                     trace[j].op = "write" /\ trace[j].path = Root \o <<"package.json">>
               /\ Root \o <<"package.json">> \in DOMAIN files

\* both root commands have run
C3_Witness ==
    /\ IsInit
    /\ Ran("pnpm add -w -D @types/node", Root)
    /\ Ran("pnpm install", Root)

(***************************************************************************)
(* C4                                                                      *)
(***************************************************************************)
UnitDir(u) == Root \o <<"packages", u>>
UnitEvents(u) == {i \in Idx : IsPrefix(UnitDir(u), trace[i].path)}
UnitManifest(u) == UnitDir(u) \o <<"package.json">>
\* the files createPackage writes after the manifest
UnitSources(u, fs) ==
    {UnitDir(u) \o <<"tsconfig.json">>, UnitDir(u) \o <<"tsup.config.ts">>}
    \cup {UnitDir(u) \o fs[k][1] : k \in 1..Len(fs)}
WroteBefore(p, i) == \E j \in 1..(i - 1) : trace[j].op = "write" /\ trace[j].path = p

\* directory, then manifest, then sources, then installs run in the unit's
\* directory; and nothing else happens in between
UnitOrder(u, fs) ==
    LET ev == UnitEvents(u) IN
    ev # {} =>
        LET first == CHOOSE i \in ev : \A j \in ev : i <= j
            final == CHOOSE i \in ev : \A j \in ev : j <= i
        IN  /\ trace[first].op = "mkdir" /\ trace[first].path = UnitDir(u)
            /\ ev = first..final
            /\ \A i \in ev :
                  /\ (trace[i].op = "write" /\ trace[i].path \in UnitSources(u, fs))
                        => WroteBefore(UnitManifest(u), i)
                  /\ IsExec(trace[i]) =>
                        /\ trace[i].path = UnitDir(u)
                        /\ WroteBefore(UnitManifest(u), i)
                        /\ \A p \in UnitSources(u, fs) : WroteBefore(p, i)

UnitRealized(u, fs, cmds) ==
    /\ UnitDir(u) \in dirs
    /\ UnitDir(u) \o <<"src">> \in dirs
    /\ UnitManifest(u) \in DOMAIN files
    /\ UnitSources(u, fs) \subseteq DOMAIN files
    /\ \A c \in cmds : Ran(c, UnitDir(u))

DbInstalls ==
    { "pnpm add -D tsup typescript @repo/typescript-config@workspace:*",
      "pnpm add @prisma/client nanoid",
      "pnpm add -D prisma" }

\* C4: in init the db unit is fully realized (directory, manifest, sources, all
\* its installs) before the first step of the queue unit; both come after the
\* workspace manifest and the install at the root; within a unit the order is
\* directory, manifest, sources, install with the unit's directory as cwd.
C4_UnitsInOrder ==
    IsInit =>
        LET db == UnitEvents("db")
            qu == UnitEvents("queue")
        IN  /\ UnitOrder("db", db_files)
            /\ UnitOrder("queue", queue_files)
            /\ qu # {} =>
                  /\ UnitRealized("db", db_files, DbInstalls)
                  /\ \A i \in db : \A j \in qu : i < j
            /\ \A i \in db \cup qu :
                  /\ WroteBefore(Root \o <<"package.json">>, i)
                  /\ \E j \in 1..(i - 1) :
                        /\ IsExec(trace[j]) /\ trace[j].cmd = "pnpm install"
                        /\ trace[j].path = Root /\ trace[j].status = 0

\* both units provisioned
C4_Witness ==
    /\ IsInit
    /\ UnitRealized("db", db_files, DbInstalls)
    /\ Ran("pnpm add bullmq ioredis", UnitDir("queue"))

(***************************************************************************)
(* C5                                                                      *)
(***************************************************************************)
FirstFailed == CHOOSE i \in Idx : Failed(trace[i]) /\ \A j \in 1..(i - 1) : ~Failed(trace[j])

\* C5 as stated: the process exits with the nonzero status of the first
\* external command that failed, and with zero only after Complete.
C5_Original ==
    state # "running" =>
        /\ (\E i \in Idx : Failed(trace[i])) => exitCode = trace[FirstFailed].status
        /\ exitCode = 0 => (state = "done" /\ Noticed)

\* C5 amended: when an external command other than the version query exits
\* nonzero the process exits with status 1, whatever the command's status;
\* it exits with zero only after Complete.
C5_ExitStatus ==
    state # "running" =>
        /\ (\E i \in Idx : FatalFailed(trace[i])) => exitCode = 1
        /\ exitCode = 0 => (state = "done" /\ Noticed)
        /\ state = "done" => exitCode = 0

\* a command ended with status 2 and the process with status 1
C5_Witness ==
    /\ state = "failed" /\ trace # <<>>
    /\ FatalFailed(trace[Len(trace)]) /\ trace[Len(trace)].status = 2
    /\ exitCode = 1

(***************************************************************************)
(* C6                                                                      *)
(***************************************************************************)
\* C6: version detection never fails: it returns the trimmed output of the
\* command, or warns and returns the one fallback literal, the same wherever
\* the version is detected; the run goes on in both cases.
C6_OneFallback ==
    \A i \in Idx :
        (IsExec(trace[i]) /\ trace[i].cmd = VersionCmd) =>
            /\ pc > i
            /\ trace[i].status = 0 =>
                  (pnpmVersion = Join(TrimChars(trace[i].out)) /\ ~warned)
            /\ trace[i].status # 0 =>
                  /\ warned
                  /\ pnpmVersion = getPnpmVersion([status |-> 1, stdout |-> <<>>]).ret
                  /\ pnpmVersion = utils_getPnpmVersion([status |-> 1, stdout |-> <<>>]).ret

(***************************************************************************)
(* C7                                                                      *)
(***************************************************************************)
\* the value of a file as JSON, JNull when it is none
JsonAt(p) == IF p \in DOMAIN files THEN JSONparse(files[p]) ELSE [ok |-> FALSE, val |-> JNull]
Has(r, k) == r.ok /\ r.val.t = "obj" /\ HasKey(r.val, k)

\* what the version query of this run gave: the trimmed output, or the
\* fallback of index.ts
DetectedOrFallback ==
    LET i == CHOOSE i \in Idx : IsExec(trace[i]) /\ trace[i].cmd = VersionCmd IN
    IF trace[i].status = 0 THEN Join(TrimChars(trace[i].out)) ELSE "9.7.0"

\* C7: when init <name> is Complete, <name>/package.json has packageManager
\* "pnpm@" + the detected or fallback version and name <name>; turbo.json has
\* tasks.build.dependsOn = ["^build"]; packages/db/package.json is named
\* "@repo/db" and packages/queue/package.json "@repo/queue".
C7_InitTree ==
    (IsInit /\ state = "done") =>
        LET man == JsonAt(Root \o <<"package.json">>)
            turbo == JsonAt(Root \o <<"turbo.json">>)
            db == JsonAt(Root \o <<"packages", "db", "package.json">>)
            qu == JsonAt(Root \o <<"packages", "queue", "package.json">>)
        IN  /\ Has(man, "packageManager")
            /\ Get(man.val, "packageManager") = JStr("pnpm@" \o DetectedOrFallback)
            /\ Has(man, "name") /\ Get(man.val, "name") = JStr(Join(argv.name))
            /\ Has(turbo, "tasks")
            /\ Get(Get(Get(turbo.val, "tasks"), "build"), "dependsOn") = JArr(<<JStr("^build")>>)
            /\ Has(db, "name") /\ Get(db.val, "name") = JStr("@repo/db")
            /\ Has(qu, "name") /\ Get(qu.val, "name") = JStr("@repo/queue")

\* Complete after a version query that printed surrounding whitespace
C7_Witness ==
    /\ IsInit /\ state = "done"
    /\ \E i \in Idx : /\ IsExec(trace[i]) /\ trace[i].cmd = VersionCmd
                      /\ trace[i].out = <<" ", "9", "\n">>

(***************************************************************************)
(* C8                                                                      *)
(***************************************************************************)
\* C8: when app <name> with the node variant is Complete,
\* apps/<name>/src/index.ts holds the greeting statement and
\* apps/<name>/package.json is named "@repo/<name>".
C8_NodeApp ==
    (IsApp /\ type = "node" /\ state = "done") =>
        LET src == AppDir \o <<"src", "index.ts">>
            man == JsonAt(AppDir \o <<"package.json">>)
        IN  /\ src \in DOMAIN files
            /\ \E k \in 1..Len(files[src]) :
                  files[src][k] = R("console.log(\"Hello, World!\");")
            /\ Has(man, "name")
            /\ Get(man.val, "name") = JStr("@repo/" \o Join(argv.name))

\* the node branch ran to Complete
C8_Witness ==
    /\ IsApp /\ type = "node" /\ state = "done"
    /\ trace[1].op = "mkdir"
    /\ AppDir \o <<"tsup.config.ts">> \in DOMAIN files

(***************************************************************************)
(* C9                                                                      *)
(***************************************************************************)
Flagged == argv.next \/ argv.node
NextCmds == { "npx create-next-app@latest apps/" \o Join(argv.name) \o " --typescript --eslint --use-pnpm",
              "pnpm add @repo/db@workspace:*" }
NodeCmds == { "pnpm add @repo/typescript-config@workspace:*", "pnpm add -D tsup typescript" }
NodeFiles == { AppDir \o <<"package.json">>, AppDir \o <<"tsup.config.ts">>,
               AppDir \o <<"tsconfig.json">>, AppDir \o <<"src", "index.ts">> }

\* C9: in app the prompt is invoked exactly when no variant flag was given;
\* with a flag the variant is a flagged one; the variant is one of the two
\* before the unit directory is created, and exactly its branch runs before
\* Complete.
C9_Variant ==
    IsApp =>
        /\ (\E i \in Idx : trace[i].op = "select") => ~Flagged
        /\ (~Flagged /\ trace # <<>>) => trace[1].op = "select"
        /\ Flagged => /\ type \in {"next", "node"}
                      /\ type = "next" => argv.next
                      /\ type = "node" => argv.node
        /\ \A i \in Idx :
              /\ (trace[i].op = "mkdir" /\ trace[i].path = AppDir) =>
                    /\ type \in {"next", "node"}
                    /\ ~Flagged => (i = 2 /\ trace[1].cmd = type /\ trace[1].status = 0)
              /\ (IsExec(trace[i]) /\ trace[i].cmd \in NextCmds) => type = "next"
              /\ (IsExec(trace[i]) /\ trace[i].cmd \in NodeCmds) => type = "node"
              /\ trace[i].op = "write" => type = "node"
        /\ state = "done" =>
              /\ type = "next" => \A c \in NextCmds : \E i \in Idx : IsExec(trace[i]) /\ trace[i].cmd = c
              /\ type = "node" =>
                    /\ \A c \in NodeCmds : Ran(c, AppDir)
                    /\ \A p \in NodeFiles : Wrote(p)

\* the prompt chose node and the node branch ran to Complete
C9_Witness ==
    /\ IsApp /\ ~Flagged /\ state = "done" /\ type = "node"
    /\ trace[1].op = "select"

(***************************************************************************)
(* The helpers of utils/index.ts called one after the other, at most        *)
(* MaxCalls times, on a file system that starts empty.                     *)
(***************************************************************************)
\* numbers in the data range over 1..MaxNum
MaxNum == 2

UtilPaths == { <<"a.json">>, <<"d", "b.json">> }
KeyNames == {"a", "0"}
Leaves ==
    {JNum(n) : n \in 1..MaxNum}
    \cup { JObj(<< <<"x", JNum(1)>> >>), JObj(<< <<"y", JNum(2)>> >>) }
\* the objects passed as newData: {}, every { a: leaf } and every { "0": number }
UpdateData ==
    {JObj(<<>>)}
    \cup {JObj(<< <<k, x>> >>) : k \in KeyNames \ {"0"}, x \in Leaves}
    \cup {JObj(<< <<"0", JNum(n)>> >>) : n \in 1..MaxNum}
\* what writeJsonFile is given: an object or an array
WriteData == { JObj(<<>>), JObj(<< <<"a", JObj(<< <<"x", JNum(1)>> >>)>>, <<"b", JNum(1)>> >>),
               JArr(<<JNum(1), JNum(2)>>),
               JObj(<< <<" k ", JArr(<<JStr(" s "), JBool(TRUE), JNull, JArr(<<>>)>>)>> >>) }
RawTexts == { <<NL, R("not json"), NL>>, <<Q("ab"), NL>> }
\* the directories createDirIfNotExists is given
DirPaths == { <<"d", "e">>, <<"a.json", "x">> }

InitUtils ==
    /\ dirs = {<<>>}
    /\ files = EmptyFiles
    /\ cwd = <<>>
    /\ argv = [cmd |-> "none", name |-> <<>>, next |-> FALSE, node |-> FALSE]
    /\ pc = 1
    /\ state = "idle"
    /\ exitCode = 0
    /\ pnpmVersion = ""
    /\ type = ""
    /\ trace = <<>>
    /\ warned = FALSE
    /\ last = NoCall
    /\ calls = 0

\* writeFile(p, text)
CallWriteFile ==
    /\ calls < MaxCalls
    /\ \E p \in UtilPaths, text \in RawTexts :
          LET r == writeFile(dirs, files, p, text) IN
          /\ dirs' = r.dirs
          /\ files' = r.files
          /\ last' = Call("writeFile", p, JNull, r.ok, JNull, dirs, files)
    /\ calls' = calls + 1
    /\ UNCHANGED cliVars

\* writeJsonFile(p, d)
CallWriteJsonFile ==
    /\ calls < MaxCalls
    /\ \E p \in UtilPaths, d \in WriteData :
          LET r == writeJsonFile(dirs, files, p, d) IN
          /\ dirs' = r.dirs
          /\ files' = r.files
          /\ last' = Call("writeJsonFile", p, d, r.ok, JNull, dirs, files)
    /\ calls' = calls + 1
    /\ UNCHANGED cliVars

\* readJsonFile(p)
CallReadJsonFile ==
    /\ calls < MaxCalls
    /\ \E p \in UtilPaths :
          LET r == readJsonFile(dirs, files, p) IN
          last' = Call("readJsonFile", p, JNull, r.ok, r.val, dirs, files)
    /\ calls' = calls + 1
    /\ UNCHANGED <<dirs, files>>
    /\ UNCHANGED cliVars

\* updateJsonFile(p, d)
CallUpdateJsonFile ==
    /\ calls < MaxCalls
    /\ \E p \in UtilPaths, d \in UpdateData :
          LET r == updateJsonFile(dirs, files, p, d) IN
          /\ dirs' = r.dirs
          /\ files' = r.files
          /\ last' = Call("updateJsonFile", p, d, r.ok, JNull, dirs, files)
    /\ calls' = calls + 1
    /\ UNCHANGED cliVars

\* createDirIfNotExists(p)
CallCreateDirIfNotExists ==
    /\ calls < MaxCalls
    /\ \E p \in DirPaths :
          LET r == createDirIfNotExists(dirs, files, p) IN
          /\ dirs' = r.dirs
          /\ files' = r.files
          /\ last' = Call("createDirIfNotExists", p, JNull, r.ok, JNull, dirs, files)
    /\ calls' = calls + 1
    /\ UNCHANGED cliVars

NextUtils ==
    \/ CallCreateDirIfNotExists
    \/ CallWriteFile
    \/ CallWriteJsonFile
    \/ CallReadJsonFile
    \/ CallUpdateJsonFile

SpecUtils == InitUtils /\ [][NextUtils]_vars

(***************************************************************************)
(* C10                                                                     *)
(***************************************************************************)
\* the mapping a file held before the last call: {} when nothing was there,
\* none when a directory was
OldMapping(p) ==
    IF p \in DOMAIN last.files THEN JSONparse(last.files[p])
    ELSE IF p \in last.dirs THEN [ok |-> FALSE, val |-> JNull]
    ELSE [ok |-> TRUE, val |-> JObj(<<>>)]

\* C10: updateJson(p, d) never fails on a missing file and merges shallowly:
\* afterwards p holds its old mapping ({} if p was not there) with every
\* top-level key of d added or wholly replaced by d's value and every other
\* key as it was; a nested object under a repeated key is replaced, not merged.
C10_ShallowMerge ==
    (last.op = "updateJsonFile" /\ OldMapping(last.path).ok
        /\ OldMapping(last.path).val.t = "obj") =>
        LET p == last.path
            d == last.data
            old == OldMapping(p).val
            new == JsonAt(p)
        IN  /\ last.ok
            /\ new.ok /\ new.val.t = "obj"
            /\ Keys(new.val) = Keys(old) \cup Keys(d)
            /\ \A k \in Keys(d) : Get(new.val, k) = Get(d, k)
            /\ \A k \in Keys(old) \ Keys(d) : Get(new.val, k) = Get(old, k)
            /\ \A q \in DOMAIN last.files : q # p =>
                  (q \in DOMAIN files /\ files[q] = last.files[q])

\* a = {x:1} was there, updateJson(p, {a:{y:2}}) left a = {y:2} and b as it was
C10_Witness ==
    /\ last.op = "updateJsonFile" /\ last.ok
    /\ last.data = JObj(<< <<"a", JObj(<< <<"y", JNum(2)>> >>)>> >>)
    /\ last.path \in DOMAIN last.files
    /\ OldMapping(last.path).ok
    /\ OldMapping(last.path).val.t = "obj"
    /\ Keys(OldMapping(last.path).val) = {"a", "b"}
    /\ Get(OldMapping(last.path).val, "a") = JObj(<< <<"x", JNum(1)>> >>)
    /\ Get(JsonAt(last.path).val, "a") = JObj(<< <<"y", JNum(2)>> >>)

(***************************************************************************)
(* C11                                                                     *)
(***************************************************************************)
\* C11: round trip.  Once writeJson(p, v) has returned, readJson(p) returns a
\* value equal to v in every part: what a read right now would return, and
\* what the read that followed the write did return.
C11_RoundTrip ==
    /\ (last.op = "writeJsonFile" /\ last.ok) =>
          readJsonFile(dirs, files, last.path) = [ok |-> TRUE, val |-> last.data]
    /\ (/\ last.op = "readJsonFile"
        /\ last.prev.op = "writeJsonFile" /\ last.prev.ok
        /\ last.prev.path = last.path) =>
          (last.ok /\ last.ret = last.prev.data)

\* { " k ": [" s ", true, null, []] } was written over a file that was there
\* and read back, blanks inside the strings kept
C11_Witness ==
    /\ last.op = "readJsonFile" /\ last.ok
    /\ last.prev.op = "writeJsonFile" /\ last.prev.ok
    /\ last.prev.path = last.path
    /\ last.ret = JObj(<< <<" k ", JArr(<<JStr(" s "), JBool(TRUE), JNull, JArr(<<>>)>>)>> >>)
    /\ Len(files[last.path]) > 1

(***************************************************************************)
(* copyCliPackageTemplate and clearDirectory called one after the other,   *)
(* at most MaxCalls times, on a file system that holds the CLI program     *)
(* below cli and a monorepo below repo.                                    *)
(***************************************************************************)
TemplateTypes == {"db", "web"}
PackageNames == {"p"}
Repos == {"apps", "packages"}
CliRoot == <<"cli">>
MonorepoRoot == <<"repo">>

\* the files given as pairs <<path, text>>
FilesOf(S) == [q \in {x[1] : x \in S} |-> (CHOOSE x \in S : x[1] = q)[2]]

\* the directory d below its root and the paths rel below d
Under(d, rels) == Prefixes(d) \cup {d \o r : r \in rels}

\* the CLI program: without the db template, with it (a manifest, a source
\* file in src, an empty directory), or with a file where the template
\* directory would be
CliTrees ==
    LET t == templateDir(CliRoot, "db") IN
    { [dirs |-> {CliRoot}, files |-> EmptyFiles],
      [dirs |-> Under(t, {<<"src">>, <<"empty">>}),
       files |-> FilesOf({ <<t \o <<"package.json">>, <<R("new manifest")>> >>,
                           <<t \o <<"src", "index.ts">>, <<R("new source"), NL>> >> })],
      [dirs |-> Prefixes(Parent(t)), files |-> FilesOf({ <<t, <<R("a file")>> >> })] }

\* the monorepo: without packages/p; with packages/p holding a manifest, a
\* readme, lib/util.ts and a .git directory; with packages/p/src a file; with packages a file
RepoTrees ==
    LET d == targetDir(MonorepoRoot, "packages", "p")
        keep == <<MonorepoRoot \o <<"keep.txt">>, <<R("kept")>> >>
    IN
    { [dirs |-> {MonorepoRoot}, files |-> FilesOf({keep})],
      [dirs |-> Under(d, {<<"lib">>, <<"src">>, <<".git">>}),
       files |-> FilesOf({ keep,
                           <<d \o <<".git", "config">>, <<R("git config")>> >>,
                           <<d \o <<"package.json">>, <<R("old manifest")>> >>,
                           <<d \o <<"README.md">>, <<R("old readme")>> >>,
                           <<d \o <<"lib", "util.ts">>, <<R("old util")>> >> })],
      [dirs |-> Prefixes(d),
       files |-> FilesOf({ keep,
                           <<d \o <<"README.md">>, <<R("old readme")>> >>,
                           <<d \o <<"src">>, <<R("old src")>> >> })],
      [dirs |-> {MonorepoRoot},
       files |-> FilesOf({ keep, <<Parent(d), <<R("not a directory")>> >> })] }

\* the directories clearDirectory is given
ClearPaths ==
    { targetDir(MonorepoRoot, "packages", "p"), MonorepoRoot \o <<"apps">>,
      MonorepoRoot \o <<"keep.txt">>, Parent(templateDir(CliRoot, "db")) }

InitFs ==
    /\ \E c \in CliTrees, r \in RepoTrees :
          /\ dirs = {<<>>} \cup c.dirs \cup r.dirs
          /\ files = [q \in DOMAIN c.files \cup DOMAIN r.files |->
                        IF q \in DOMAIN c.files THEN c.files[q] ELSE r.files[q]]
    /\ cwd = <<>>
    /\ argv = [cmd |-> "none", name |-> <<>>, next |-> FALSE, node |-> FALSE]
    /\ pc = 1
    /\ state = "idle"
    /\ exitCode = 0
    /\ pnpmVersion = ""
    /\ type = ""
    /\ trace = <<>>
    /\ warned = FALSE
    /\ last = NoCall
    /\ calls = 0

\* copyCliPackageTemplate(ty, nm, MonorepoRoot, repo, CliRoot)
CallCopyCliPackageTemplate ==
    /\ calls < MaxCalls
    /\ \E ty \in TemplateTypes, nm \in PackageNames, repo \in Repos :
         \E part \in TemplateOutcomes(dirs, files, ty, nm, MonorepoRoot, repo, CliRoot) :
          LET r == copyCliPackageTemplate(dirs, files, ty, nm, MonorepoRoot, repo,
                                          CliRoot, part)
          IN
          /\ dirs' = r.dirs
          /\ files' = r.files
          /\ last' = [Call("copyCliPackageTemplate", targetDir(MonorepoRoot, repo, nm),
                           JNull, r.ok, JNull, dirs, files)
                        EXCEPT !.src = templateDir(CliRoot, ty), !.log = r.log]
    /\ calls' = calls + 1
    /\ UNCHANGED cliVars

\* clearDirectory(p)
CallClearDirectory ==
    /\ calls < MaxCalls
    /\ \E p \in ClearPaths :
          LET r == clearDirectory(dirs, files, p) IN
          /\ dirs' = r.dirs
          /\ files' = r.files
          /\ last' = Call("clearDirectory", p, JNull, r.ok, JNull, dirs, files)
    /\ calls' = calls + 1
    /\ UNCHANGED cliVars

\* removeGitDirectory(appDir, nm)
CallRemoveGitDirectory ==
    /\ calls < MaxCalls
    /\ \E repo \in Repos, nm \in PackageNames :
          LET r == removeGitDirectory(dirs, files, targetDir(MonorepoRoot, repo, nm), nm) IN
          /\ dirs' = r.dirs
          /\ files' = r.files
          /\ last' = [Call("removeGitDirectory", targetDir(MonorepoRoot, repo, nm),
                           JStr(nm), r.ok, JNull, dirs, files)
                        EXCEPT !.log = r.log]
    /\ calls' = calls + 1
    /\ UNCHANGED cliVars

NextFs ==
    \/ CallRemoveGitDirectory
    \/ CallCopyCliPackageTemplate
    \/ CallClearDirectory

SpecFs == InitFs /\ [][NextFs]_vars

(***************************************************************************)
(* getPnpmVersion, runCommand, runCommandWithResult and logWithColor of    *)
(* utils/index.ts called one after the other, at most MaxCalls times.      *)
(***************************************************************************)
\* the cwd option: none (<<>>), a directory that is there, one that is not
CmdDirs == { <<>>, <<"d">>, <<"x">> }
\* what a command may print
CmdOutputs == { <<>>, <<"9">>, <<" ", "9", " ">>, <<"\t", "9", "\r", "\n">> }

\* getPnpmVersion() of utils/index.ts
CallGetPnpmVersion ==
    /\ calls < MaxCalls
    /\ \E st \in 0..MaxStatus, out \in CmdOutputs :
          /\ st # 0 => out = <<>>
          /\ LET r == utils_getPnpmVersion([status |-> st, stdout |-> out]) IN
                /\ last' = [Call("getPnpmVersion", cwd, JStr("pnpm --version"), TRUE,
                                 JStr(r.ret), dirs, files)
                              EXCEPT !.log = IF r.warn THEN <<"warn">> ELSE <<>>]
                /\ warned' = (warned \/ r.warn)
          /\ trace' = Append(trace, Ev("exec", cwd, "pnpm --version", st, out))
    /\ calls' = calls + 1
    /\ UNCHANGED <<dirs, files, cwd, argv, pc, state, exitCode, pnpmVersion, type>>

\* runCommand(cmd, { cwd: wd })
CallRunCommand ==
    /\ calls < MaxCalls
    /\ \E cmd \in {"pnpm install"}, wd \in CmdDirs :
          \/ /\ Resolve(cwd, wd) \in dirs
             /\ \E st \in 0..MaxStatus :
                   LET r == runCommand([started |-> TRUE, status |-> st, stdout |-> <<>>]) IN
                   /\ last' = [Call("runCommand", Resolve(cwd, wd), JStr(cmd), r.ok, r.ret,
                                    dirs, files) EXCEPT !.log = r.log]
                   /\ trace' = Append(trace, Ev("exec", Resolve(cwd, wd), cmd, st, <<>>))
          \/ /\ Resolve(cwd, wd) \notin dirs
             /\ LET r == runCommand([started |-> FALSE, status |-> 1, stdout |-> <<>>]) IN
                   last' = [Call("runCommand", Resolve(cwd, wd), JStr(cmd), r.ok, r.ret,
                                 dirs, files) EXCEPT !.log = r.log]
             /\ UNCHANGED trace
    /\ calls' = calls + 1
    /\ UNCHANGED <<dirs, files, cwd, argv, pc, state, exitCode, pnpmVersion, type, warned>>

\* runCommandWithResult(cmd, { cwd: wd })
CallRunCommandWithResult ==
    /\ calls < MaxCalls
    /\ \E cmd \in {"pnpm install"}, wd \in CmdDirs :
          \/ /\ Resolve(cwd, wd) \in dirs
             /\ \E st \in 0..MaxStatus, out \in CmdOutputs :
                   /\ st # 0 => out = <<>>
                   /\ LET r == runCommandWithResult([started |-> TRUE, status |-> st, stdout |-> out]) IN
                         last' = Call("runCommandWithResult", Resolve(cwd, wd), JStr(cmd),
                                      r.ok, r.ret, dirs, files)
                   /\ trace' = Append(trace, Ev("exec", Resolve(cwd, wd), cmd, st, out))
          \/ /\ Resolve(cwd, wd) \notin dirs
             /\ LET r == runCommandWithResult([started |-> FALSE, status |-> 1, stdout |-> <<>>]) IN
                   last' = Call("runCommandWithResult", Resolve(cwd, wd), JStr(cmd),
                                r.ok, r.ret, dirs, files)
             /\ UNCHANGED trace
    /\ calls' = calls + 1
    /\ UNCHANGED <<dirs, files, cwd, argv, pc, state, exitCode, pnpmVersion, type, warned>>

\* logWithColor(message, color)
CallLogWithColor ==
    /\ calls < MaxCalls
    /\ LET r == logWithColor("message") IN
          last' = [Call("logWithColor", <<>>, JStr("message"), r.ok, r.ret, dirs, files)
                     EXCEPT !.log = r.log]
    /\ calls' = calls + 1
    /\ UNCHANGED <<dirs, files>>
    /\ UNCHANGED cliVars

NextCmd ==
    \/ CallCreateDirIfNotExists
    \/ CallGetPnpmVersion
    \/ CallRunCommand
    \/ CallRunCommandWithResult
    \/ CallLogWithColor

SpecCmd == InitUtils /\ [][NextCmd]_vars

(***************************************************************************)
(* C12, C13, C14                                                           *)
(***************************************************************************)
\* the entries below the directory d, d itself not counted
Inside(ds, fl, d) == {q \in ds \cup DOMAIN fl : IsPrefix(d, q) /\ q # d}

\* the file system is as the last call found it
Untouched == dirs = last.dirs /\ files = last.files

\* every entry that is not below d (d itself counted below) is as the last
\* call found it
SameOutside(d) ==
    /\ {q \in dirs : ~IsPrefix(d, q)} = {q \in last.dirs : ~IsPrefix(d, q)}
    /\ {q \in DOMAIN files : ~IsPrefix(d, q)} = {q \in DOMAIN last.files : ~IsPrefix(d, q)}
    /\ \A q \in DOMAIN last.files : ~IsPrefix(d, q) => files[q] = last.files[q]

\* C12: materialize with a template source that does not exist logs an error
\* and returns normally with nothing changed: the target directory is not
\* made if it was not there and every file keeps its content.
C12_MissingTemplate ==
    (last.op = "copyCliPackageTemplate" /\ ~existsSync(last.dirs, last.files, last.src)) =>
        /\ last.ok
        /\ last.log = <<"log", "log", "error">>
        /\ Untouched
        /\ (last.path \notin last.dirs => last.path \notin dirs)

\* the template was not there, the target directory neither, and the monorepo
\* held files: the call returned and the target directory is still not there
C12_Witness ==
    /\ last.op = "copyCliPackageTemplate" /\ last.ok
    /\ ~existsSync(last.dirs, last.files, last.src)
    /\ ~existsSync(dirs, files, last.path)
    /\ \E q \in DOMAIN files : IsPrefix(MonorepoRoot, q)
    /\ last.log[3] = "error"

\* the source files of the last call, and where each goes
SourceFiles == {q \in DOMAIN last.files : IsPrefix(last.src, q)}
Counterpart(q) == Rebase(last.src, last.path, q)

\* the files of the target that are the counterpart of a source file
Counterparts == {Counterpart(q) : q \in SourceFiles}

\* the tree the last call found lets the template be merged into the target:
\* the source is a directory, no file stands where the target directory or a
\* directory above it has to be, and no entry of the source meets an entry of
\* the other kind at its place in the target (a file where the source has a
\* directory, a directory where the source has a file)
Mergeable ==
    /\ last.src \in last.dirs
    /\ \A d \in Prefixes(last.path) : d \notin DOMAIN last.files
    /\ \A q \in Inside(last.dirs, last.files, last.src) :
          /\ q \in last.dirs => Counterpart(q) \notin DOMAIN last.files
          /\ q \in DOMAIN last.files => Counterpart(q) \notin last.dirs

\* every file of the source has an identical file at its place in the target
Arrived ==
    \A q \in SourceFiles :
        /\ Counterpart(q) \in DOMAIN files
        /\ files[Counterpart(q)] = last.files[q]

\* every file with no counterpart in the source is unchanged
OthersKept ==
    \A t \in DOMAIN last.files :
        t \notin Counterparts => (t \in DOMAIN files /\ files[t] = last.files[t])

\* the source tree is as it was
SourceKept ==
    /\ \A q \in Inside(last.dirs, last.files, last.src) \cup {last.src} :
          /\ q \in last.dirs <=> q \in dirs
          /\ q \in DOMAIN last.files =>
                (q \in DOMAIN files /\ files[q] = last.files[q])
    /\ Inside(dirs, files, last.src) = Inside(last.dirs, last.files, last.src)

\* the claim as stated: whenever the template source exists, whatever the
\* target holds, every source file has its identical counterpart afterwards
C13_Original ==
    (last.op = "copyCliPackageTemplate"
        /\ existsSync(last.dirs, last.files, last.src)) =>
        (Arrived /\ OthersKept /\ SourceKept)

\* C13: materialize with a template source that exists.  On a tree that lets
\* the template be merged (the source a directory, the target directory
\* creatable, no file of the target where the source has a directory nor a
\* directory where the source has a file) the call returns and it is a merge
\* copy in which the source wins: every file of the source has an identical
\* file at the same relative path of the target.  On every tree, also when
\* the call throws: every file with no counterpart in the source is
\* unchanged, the source tree is as it was, a file that is or was at the
\* place of a source file holds either the source's content or what it held
\* before, and the call throws only on a tree that is not mergeable.
C13_SourceWins ==
    (last.op = "copyCliPackageTemplate"
        /\ existsSync(last.dirs, last.files, last.src)) =>
        /\ Mergeable => (last.ok /\ last.path \in dirs /\ Arrived)
        /\ ~Mergeable => ~last.ok
        /\ OthersKept
        /\ SourceKept
        /\ \A q \in SourceFiles :
              LET t == Counterpart(q) IN
              /\ t \in DOMAIN files =>
                    \/ files[t] = last.files[q]
                    \/ (t \in DOMAIN last.files /\ files[t] = last.files[t])
              /\ t \in DOMAIN last.files => t \in DOMAIN files

\* on a mergeable tree the target held a manifest of its own, which the
\* template's replaced, and a readme the template does not have, which is
\* still there
C13_Witness ==
    /\ last.op = "copyCliPackageTemplate" /\ last.ok /\ Mergeable
    /\ \E q \in SourceFiles :
          /\ Counterpart(q) \in DOMAIN last.files
          /\ last.files[Counterpart(q)] # last.files[q]
          /\ files[Counterpart(q)] = last.files[q]
    /\ \E t \in DOMAIN last.files :
          /\ IsPrefix(last.path, t)
          /\ t \notin Counterparts
          /\ files[t] = last.files[t]

\* C14: clearDirectory(p) on a directory that exists leaves p existing and
\* empty and touches nothing outside p; on a path that does not exist it
\* changes nothing and does not make p.
C14_ClearDirectory ==
    last.op = "clearDirectory" =>
        /\ last.path \in last.dirs =>
              /\ last.ok
              /\ last.path \in dirs
              /\ Inside(dirs, files, last.path) = {}
              /\ SameOutside(last.path)
        /\ ~existsSync(last.dirs, last.files, last.path) =>
              /\ last.ok
              /\ Untouched
              /\ ~existsSync(dirs, files, last.path)

\* p held files and a directory with a file in it, and is now empty
C14_Witness ==
    /\ last.op = "clearDirectory" /\ last.ok
    /\ \E q \in DOMAIN last.files : Parent(q) = last.path
    /\ \E d \in last.dirs : Parent(d) = last.path /\ \E q \in DOMAIN last.files : Parent(q) = d
    /\ last.path \in dirs
    /\ Inside(dirs, files, last.path) = {}
    /\ DOMAIN files # {}

(***************************************************************************)
(* C15                                                                     *)
(***************************************************************************)
SupportDir(u) == Root \o <<"packages", u>>
\* the support-config step is finished once init has gone on to .gitignore
SupportFinished == Wrote(Root \o <<".gitignore">>)
\* package.json of the support package u was written and then a command ran
\* to its end in the directory of u
ManifestThenInstall(u) ==
    \E j \in Idx :
        /\ trace[j].op = "write" /\ trace[j].path = SupportDir(u) \o <<"package.json">>
        /\ \E i \in (j + 1)..Len(trace) :
              IsExec(trace[i]) /\ trace[i].path = SupportDir(u) /\ trace[i].status = 0

\* C15 as stated: when the support-config step of init is finished, each of
\* the two support packages, typescript-config and docker-dev, has had its
\* manifest written and an install command of its own run in its directory.
C15_Original ==
    (IsInit /\ SupportFinished) =>
        \A u \in {"typescript-config", "docker-dev"} : ManifestThenInstall(u)

\* C15 amended: when the step is finished, typescript-config has had its
\* manifest written and then its own install, `pnpm add -D @tsconfig/node20`,
\* run in its directory; docker-dev has had its manifest written and no
\* command is ever run in its directory: what it depends on is installed by
\* the `pnpm install` at the workspace root, which runs after the step.
C15_SupportPackages ==
    IsInit =>
        /\ SupportFinished =>
              /\ ManifestThenInstall("typescript-config")
              /\ Ran("pnpm add -D @tsconfig/node20", SupportDir("typescript-config"))
              /\ Wrote(SupportDir("docker-dev") \o <<"package.json">>)
        /\ \A i \in Idx :
              /\ IsExec(trace[i]) => ~IsPrefix(SupportDir("docker-dev"), trace[i].path)
              /\ (IsExec(trace[i]) /\ trace[i].cmd = "pnpm add -D @tsconfig/node20") =>
                    trace[i].path = SupportDir("typescript-config")
              /\ (IsExec(trace[i]) /\ trace[i].cmd = "pnpm install") =>
                    /\ trace[i].path = Root
                    /\ WroteBefore(SupportDir("docker-dev") \o <<"package.json">>, i)
                    /\ WroteBefore(Root \o <<".gitignore">>, i)

\* the step is finished and the install at the root has run after it
C15_Witness ==
    /\ IsInit /\ SupportFinished
    /\ Ran("pnpm install", Root)
    /\ SupportDir("docker-dev") \o <<"package.json">> \in DOMAIN files

(***************************************************************************)
(* C16                                                                     *)
(***************************************************************************)
\* the run ended at a statement that makes a directory which is there already
FailedOnExistingDir ==
    /\ state = "failed"
    /\ pc <= Len(Program)
    /\ Program[pc].op = "mkdir"
    /\ Resolve(cwd, Program[pc].path) \in dirs

\* C16: every directory-creation step of init and app is idempotent: when the
\* directory is there already the step does nothing, does not fail, and the
\* run goes on with the next step.
C16_Idempotent == ~FailedOnExistingDir

(***************************************************************************)
(* C17                                                                     *)
(***************************************************************************)
\* C17: in init the working directory is changed exactly once, right after
\* the workspace root is made, to that root; from then to the end of the run,
\* Complete or failed, it is the root and is never set back; every file
\* written and every command run after that is inside the root.
C17_WorkingDirectory ==
    IsInit =>
        /\ \A i \in Idx : trace[i].op = "chdir" <=> i = 2
        /\ Len(trace) >= 1 => (trace[1].op = "mkdir" /\ trace[1].path = Root)
        /\ Len(trace) >= 2 => (trace[2].path = Root /\ cwd = Root)
        /\ Len(trace) < 2 => cwd = <<>>
        /\ pc >= 3 => Len(trace) >= 2
        /\ \A i \in 3..Len(trace) :
              trace[i].op \in {"mkdir", "write", "exec"} =>
                  (IsPrefix(Root, trace[i].path) /\ trace[i].path \in dirs \cup DOMAIN files)

\* init failed at a command run in a package directory, the working
\* directory still the root
C17_Witness ==
    /\ IsInit /\ state = "failed"
    /\ Len(trace) > 10
    /\ cwd = Root
    /\ trace[Len(trace)].path = Root \o <<"packages", "db">>

(***************************************************************************)
(* C18                                                                     *)
(***************************************************************************)
Scaffolder == "npx create-next-app@latest apps/" \o Join(argv.name) \o " --typescript --eslint --use-pnpm"
DbInstall == "pnpm add @repo/db@workspace:*"
MadeBefore(d, i) == \E j \in 1..(i - 1) : trace[j].op = "mkdir" /\ trace[j].path = d
RanBefore(cmd, i) ==
    \E j \in 1..(i - 1) : IsExec(trace[j]) /\ trace[j].cmd = cmd /\ trace[j].status = 0

\* C18: in app with the next variant the unit directory is made first, then
\* the scaffolder is run on that directory, and @repo/db is installed with the
\* unit directory as working directory only after the scaffolder ended with
\* status 0; when the scaffolder fails the install is never run and there is
\* no success notice.
C18_NextOrder ==
    (IsApp /\ type = "next") =>
        /\ \A i \in Idx :
              /\ IsExec(trace[i]) => trace[i].cmd \in {Scaffolder, DbInstall}
              /\ (IsExec(trace[i]) /\ trace[i].cmd = Scaffolder) =>
                    /\ MadeBefore(AppDir, i)
                    /\ AppDir \in dirs
                    /\ trace[i].path = cwd
              /\ (IsExec(trace[i]) /\ trace[i].cmd = DbInstall) =>
                    /\ trace[i].path = AppDir
                    /\ RanBefore(Scaffolder, i)
              /\ (Failed(trace[i]) /\ trace[i].cmd = Scaffolder) =>
                    /\ \A j \in Idx : trace[j].cmd # DbInstall
                    /\ ~Noticed
                    /\ state = "failed"
              /\ trace[i].op = "notice" => (RanBefore(Scaffolder, i) /\ RanBefore(DbInstall, i))
        /\ state = "done" => Noticed

\* the next variant ran to Complete: directory, scaffolder, install
C18_Witness ==
    /\ IsApp /\ type = "next" /\ state = "done"
    /\ Ran(Scaffolder, <<>>) /\ Ran(DbInstall, AppDir)

(***************************************************************************)
(* C19                                                                     *)
(***************************************************************************)
BaseInstall == "pnpm add @repo/typescript-config@workspace:*"
DevInstall == "pnpm add -D tsup typescript"

\* C19: in app with the node variant the manifest, the build-tool
\* configuration, the type-check configuration and the source stub are all
\* written before any install runs; then the base-config install runs, and
\* only after it ended with status 0 the install of the build tool and the
\* type checker as development dependencies: two invocations, each with the
\* unit directory as working directory.
C19_NodeOrder ==
    (IsApp /\ type = "node") =>
        /\ \A i \in Idx :
              /\ IsExec(trace[i]) =>
                    /\ trace[i].cmd \in {BaseInstall, DevInstall}
                    /\ trace[i].path = AppDir
                    /\ \A p \in NodeFiles : WroteBefore(p, i)
                    /\ \A j \in Idx : (j # i /\ IsExec(trace[j])) => trace[j].cmd # trace[i].cmd
              /\ (IsExec(trace[i]) /\ trace[i].cmd = DevInstall) => RanBefore(BaseInstall, i)
              /\ (Failed(trace[i]) /\ trace[i].cmd = BaseInstall) =>
                    \A j \in Idx : trace[j].cmd # DevInstall
              /\ trace[i].op = "notice" => (RanBefore(BaseInstall, i) /\ RanBefore(DevInstall, i))
        /\ state = "done" => Noticed

\* the node variant ran to Complete with both installs
C19_Witness ==
    /\ IsApp /\ type = "node" /\ state = "done"
    /\ Ran(BaseInstall, AppDir) /\ Ran(DevInstall, AppDir)
    /\ Cardinality({i \in Idx : IsExec(trace[i])}) = 2

(***************************************************************************)
(* C20                                                                     *)
(***************************************************************************)
\* C20: init <name> never clobbers what is there: when a file or directory
\* <name> is in the working directory, init fails at its first step, the
\* working directory unchanged, no file or directory written anywhere and no
\* command run, the version query included.
C20_NeverClobbers ==
    /\ [][(IsInit /\ state = "running" /\ pc = 1 /\ existsSync(dirs, files, Root)) =>
            /\ state' = "failed"
            /\ pc' = 1
            /\ UNCHANGED <<dirs, files, cwd, trace, pnpmVersion, warned>>]_vars
    /\ []((IsInit /\ pc = 1) => (trace = <<>> /\ cwd = <<>> /\ pnpmVersion = ""))
    /\ []((IsInit /\ trace # <<>>) => (trace[1].op = "mkdir" /\ trace[1].path = Root))

\* <name> was there, as a directory or as a file with its text, and init
\* ended at its first step
C20_Witness ==
    /\ IsInit /\ state = "failed" /\ pc = 1
    /\ trace = <<>> /\ cwd = <<>>
    /\ \/ Root \in dirs
       \/ Root \in DOMAIN files /\ files[Root] = OldText

====
